---- MODULE Spec2Model ----
(***************************************************************************)
(* A model of the Emu3 visual tokenizer of                                 *)
(* src/src/transformers/models/emu3/modular_emu3.py: the vocabulary        *)
(* mapping (Emu3ImageVocabularyMapping), the shapes that flow through the  *)
(* VQ-VAE (Emu3VQVAE.encode / decode and the layers below them), the       *)
(* vector quantizer (Emu3VQVAEVectorQuantizer.forward) and the image-token *)
(* entry points of Emu3Model.                                              *)
(*                                                                         *)
(* Every operation of the program is a call on a constructed object: the   *)
(* state is the object (its configuration, its codebook, its vocabulary    *)
(* table and its lazily cached lookup tables) and the last call made on    *)
(* it: the operation, its argument and what it returned or raised.         *)
(***************************************************************************)
EXTENDS Integers, Sequences, FiniteSets, TLC

VARIABLES
    config,     \* Emu3VQVAEConfig fields the model reads
    weight,     \* quantize.embedding.weight: the codebook, one row per code
    vocab_map,  \* Emu3ImageVocabularyMapping.vocab_map: token name -> shared id
    cached,     \* the cached_property values of the vocabulary mapping
    op,         \* the operation that has just returned, "idle" between calls
    arg,        \* its argument
    ret,        \* what it returned: [raised |-> "none", value |-> v] or an error
    origin      \* the argument of the call whose result is the current argument

vars == <<config, weight, vocab_map, cached, op, arg, ret, origin>>

\* Python's None, and a value that is not None.
None == [some |-> FALSE]

Some(v) == [some |-> TRUE, v |-> v]

Ok(v) == [raised |-> "none", value |-> v]

Raise(e) == [raised |-> e, value |-> None]

Min(a, b) == IF a < b THEN a ELSE b

Max(a, b) == IF a > b THEN a ELSE b

SetMax(S) == CHOOSE x \in S : \A y \in S : y <= x

RECURSIVE Pow(_, _)
Pow(b, n) == IF n = 0 THEN 1 ELSE b * Pow(b, n - 1)

\* The caller takes the result; the object is ready for the next call.
Return ==
    /\ op # "idle"
    /\ op' = "idle"
    /\ arg' = None
    /\ ret' = Ok(None)
    /\ origin' = None
    /\ UNCHANGED <<config, weight, vocab_map, cached>>

(***************************************************************************)
(* Token names are Python strings: sequences of characters.                *)
(***************************************************************************)

\* The characters of the names, in code-point order (Python compares strings
\* by code point).
Alphabet ==
    <<" ", "0", "1", "2", "3", "4", "5", "6", "7", "8", "9", "<", ">", "_",
      "a", "e", "g", "h", "i", "k", "l", "m", "n", "o", "r", "s", "t", "u",
      "v", "x", "z", "|">>

Ord(c) == CHOOSE i \in 1..Len(Alphabet) : Alphabet[i] = c

DigitChars == <<"0", "1", "2", "3", "4", "5", "6", "7", "8", "9">>

IsDigit(c) == \E d \in 1..10 : DigitChars[d] = c

DigitValue(c) == (CHOOSE d \in 1..10 : DigitChars[d] = c) - 1

\* str.startswith
startswith(name, prefix) ==
    /\ Len(name) >= Len(prefix)
    /\ SubSeq(name, 1, Len(prefix)) = prefix

\* Python's s[lo:hi] for negative lo and hi, as in token[-8:-2]: both ends
\* are clamped to the string.
PySlice(s, lo, hi) ==
    SubSeq(s, Max(Len(s) + lo, 0) + 1, Max(Len(s) + hi, 0))

\* Python's s1 < s2 on strings: lexicographic by code point.
RECURSIVE StrLess(_, _)
StrLess(s1, s2) ==
    IF s2 = <<>> THEN FALSE
    ELSE IF s1 = <<>> THEN TRUE
    ELSE IF Ord(Head(s1)) # Ord(Head(s2)) THEN Ord(Head(s1)) < Ord(Head(s2))
    ELSE StrLess(Tail(s1), Tail(s2))

\* str.strip of blanks, as int() does before it parses.
RECURSIVE Strip(_)
Strip(s) ==
    IF s = <<>> THEN s
    ELSE IF Head(s) = " " THEN Strip(Tail(s))
    ELSE IF s[Len(s)] = " " THEN Strip(SubSeq(s, 1, Len(s) - 1))
    ELSE s

RECURSIVE DigitsValue(_)
DigitsValue(s) ==
    IF s = <<>> THEN 0
    ELSE 10 * DigitsValue(SubSeq(s, 1, Len(s) - 1)) + DigitValue(s[Len(s)])

\* int(s) on a string of the alphabet: the decimal value of its digits,
\* blanks around them ignored; anything else is a ValueError.
IntParses(s) == Strip(s) # <<>> /\ \A i \in 1..Len(Strip(s)) : IsDigit(Strip(s)[i])

PyInt(s) == DigitsValue(Strip(s))

(***************************************************************************)
(* Python dicts keep insertion order: a dict is a sequence of <<key,       *)
(* value>> pairs with pairwise different keys.                             *)
(***************************************************************************)

DictKeys(d) == {d[i][1] : i \in 1..Len(d)}

DictHas(d, k) == k \in DictKeys(d)

DictGet(d, k) == d[CHOOSE i \in 1..Len(d) : d[i][1] = k][2]

\* d[k] = v: an existing key keeps its place and takes the new value.
DictSet(d, k, v) ==
    IF DictHas(d, k)
    THEN [i \in 1..Len(d) |-> IF d[i][1] = k THEN <<k, v>> ELSE d[i]]
    ELSE Append(d, <<k, v>>)

(***************************************************************************)
(* Tensors.  A 1-D tensor is a sequence, entry i of the tensor at place    *)
(* i + 1.  A 2-D tensor is [rows, cols, at], at[r][c] the entry of row r   *)
(* and column c, both counted from 1.                                      *)
(***************************************************************************)

Tensor2(R, C, f(_, _)) ==
    [rows |-> R, cols |-> C, at |-> [r \in 1..R |-> [c \in 1..C |-> f(r, c)]]]

Entries(t) == {t.at[r][c] : r \in 1..t.rows, c \in 1..t.cols}

\* mapping[i] for one index of an index tensor: an index in [-n, n) is
\* accepted, a negative one counts from the end.
IndexInRange(mapping, i) == -Len(mapping) <= i /\ i < Len(mapping)

IndexOne(mapping, i) ==
    IF i >= 0 THEN mapping[i + 1] ELSE mapping[Len(mapping) + i + 1]

\* mapping[index_tensor]: a gather of the shape of the index tensor.
IndexSelect(mapping, t) ==
    IF \A i \in Entries(t) : IndexInRange(mapping, i)
    THEN Ok(Tensor2(t.rows, t.cols, LAMBDA r, c : IndexOne(mapping, t.at[r][c])))
    ELSE Raise("IndexError")

(***************************************************************************)
(* Emu3ImageVocabularyMapping                                              *)
(***************************************************************************)

EolName == <<"<", "|", "e", "x", "t", "r", "a", "_", "2", "0", "0", "|", ">">>

ImageName == <<"<", "i", "m", "a", "g", "e", ">">>

VisualPrefix ==
    <<"<", "|", "v", "i", "s", "u", "a", "l", " ", "t", "o", "k", "e", "n">>

\* dict.get: None for a missing name.
VocabGet(vm, name) == IF name \in DOMAIN vm THEN Some(vm[name]) ELSE None

eol_token_id(vm) == VocabGet(vm, EolName)

image_token_id(vm) == VocabGet(vm, ImageName)

NotCached ==
    [image_tokens_str |-> None, img2bpe |-> None, bpe2img |-> None,
     bpe2img_mapping_tensor |-> None, img2bpe_mapping_tensor |-> None]

\* sorted(names)
RECURSIVE Sorted(_)
Sorted(S) ==
    IF S = {} THEN <<>>
    ELSE LET first == CHOOSE x \in S : \A y \in S \ {x} : StrLess(x, y)
         IN  <<first>> \o Sorted(S \ {first})

\* A cached_property read is a pair <<result, cache after the read>>: the
\* first read computes and stores the value, a raise stores nothing.
image_tokens_str(vm, c) ==
    IF c.image_tokens_str.some THEN <<Ok(c.image_tokens_str.v), c>>
    ELSE LET v == Sorted({name \in DOMAIN vm : startswith(name, VisualPrefix)})
         IN  <<Ok(v), [c EXCEPT !.image_tokens_str = Some(v)]>>

\* {int(token[-8:-2]): vocab_map[token] for token in tokens}
RECURSIVE Img2BpeDict(_, _)
Img2BpeDict(vm, tokens) ==
    IF tokens = <<>> THEN <<>>
    ELSE LET n == Len(tokens)
         IN  DictSet(Img2BpeDict(vm, SubSeq(tokens, 1, n - 1)),
                     PyInt(PySlice(tokens[n], -8, -2)), vm[tokens[n]])

\* The body of img2bpe, given the read of self.image_tokens_str.
Img2BpeOf(vm, tokens, c) ==
    IF \E i \in 1..Len(tokens) : ~IntParses(PySlice(tokens[i], -8, -2))
    THEN <<Raise("ValueError"), c>>
    ELSE <<Ok(Img2BpeDict(vm, tokens)),
           [c EXCEPT !.img2bpe = Some(Img2BpeDict(vm, tokens))]>>

Img2BpeFrom(vm, got) == Img2BpeOf(vm, got[1].value, got[2])

img2bpe(vm, c) ==
    IF c.img2bpe.some THEN <<Ok(c.img2bpe.v), c>>
    ELSE Img2BpeFrom(vm, image_tokens_str(vm, c))

\* {v: k for k, v in img2bpe.items()}
RECURSIVE InvertDict(_)
InvertDict(d) ==
    IF d = <<>> THEN <<>>
    ELSE LET n == Len(d)
         IN  DictSet(InvertDict(SubSeq(d, 1, n - 1)), d[n][2], d[n][1])

\* The body of bpe2img, given the read of self.img2bpe.
Bpe2ImgFrom(got) ==
    IF got[1].raised # "none" THEN got
    ELSE <<Ok(InvertDict(got[1].value)),
           [got[2] EXCEPT !.bpe2img = Some(InvertDict(got[1].value))]>>

bpe2img(vm, c) ==
    IF c.bpe2img.some THEN <<Ok(c.bpe2img.v), c>>
    ELSE Bpe2ImgFrom(img2bpe(vm, c))

\* MappingTensor sized max(d.keys()), one entry short.
MappingTensorTooShort(d) ==
    [i \in 1..SetMax(DictKeys(d)) |->
        IF DictHas(d, i - 1) THEN DictGet(d, i - 1) ELSE 0]

\* mapping = torch.zeros(max(d.keys()) + 1); mapping[k] = v for every item
MappingTensor(d) ==
    [i \in 1..(SetMax(DictKeys(d)) + 1) |->
        IF DictHas(d, i - 1) THEN DictGet(d, i - 1) ELSE 0]

\* The body of bpe2img_mapping_tensor, given the read of self.bpe2img; max()
\* of no keys is a ValueError.
Bpe2ImgMappingTensorFrom(got) ==
    IF got[1].raised # "none" THEN got
    ELSE IF got[1].value = <<>> THEN <<Raise("ValueError"), got[2]>>
    ELSE <<Ok(MappingTensor(got[1].value)),
           [got[2] EXCEPT !.bpe2img_mapping_tensor = Some(MappingTensor(got[1].value))]>>

bpe2img_mapping_tensor(vm, c) ==
    IF c.bpe2img_mapping_tensor.some
    THEN <<Ok(c.bpe2img_mapping_tensor.v), c>>
    ELSE Bpe2ImgMappingTensorFrom(bpe2img(vm, c))

\* The body of img2bpe_mapping_tensor, given the read of self.img2bpe.
Img2BpeMappingTensorFrom(got) ==
    IF got[1].raised # "none" THEN got
    ELSE IF got[1].value = <<>> THEN <<Raise("ValueError"), got[2]>>
    ELSE <<Ok(MappingTensor(got[1].value)),
           [got[2] EXCEPT !.img2bpe_mapping_tensor = Some(MappingTensor(got[1].value))]>>

img2bpe_mapping_tensor(vm, c) ==
    IF c.img2bpe_mapping_tensor.some
    THEN <<Ok(c.img2bpe_mapping_tensor.v), c>>
    ELSE Img2BpeMappingTensorFrom(img2bpe(vm, c))

\* CatEol with the two tensors in the other order: the marker comes first.
CatEolFirst(t, eol) ==
    Tensor2(t.rows, t.cols + 1,
            LAMBDA r, c : IF c = 1 THEN eol ELSE t.at[r][c - 1])

\* torch.cat([img_tokens, eol_row], dim=-1)
CatEol(t, eol) ==
    Tensor2(t.rows, t.cols + 1,
            LAMBDA r, c : IF c <= t.cols THEN t.at[r][c] ELSE eol)

\* The body of convert_img2bpe, given the read of the mapping tensor.
ConvertImg2BpeFrom(eol, got, img_batch) ==
    IF got[1].raised # "none" THEN got
    ELSE IF IndexSelect(got[1].value, img_batch).raised # "none"
    THEN <<IndexSelect(got[1].value, img_batch), got[2]>>
    ELSE <<Ok(CatEol(IndexSelect(got[1].value, img_batch).value, eol)), got[2]>>

\* convert_img2bpe: <<result, cache after the call>>.  A table without the
\* end-of-line name has eol_token_id None, and ones(...) * None is a TypeError.
convert_img2bpe(vm, c, img_batch) ==
    IF ~eol_token_id(vm).some THEN <<Raise("TypeError"), c>>
    ELSE ConvertImg2BpeFrom(eol_token_id(vm).v, img2bpe_mapping_tensor(vm, c), img_batch)

\* img_batch[..., 1:], the first column dropped in place of the last.
DropFirstColumn(t) ==
    Tensor2(t.rows, Max(t.cols - 1, 0), LAMBDA r, c : t.at[r][c + 1])

\* img_batch[..., :-1]
DropLastColumn(t) ==
    Tensor2(t.rows, Max(t.cols - 1, 0), LAMBDA r, c : t.at[r][c])

\* The body of convert_bpe2img, given the read of the mapping tensor.
ConvertBpe2ImgFrom(got, img_batch) ==
    IF got[1].raised # "none" THEN got
    ELSE <<IndexSelect(got[1].value, DropLastColumn(img_batch)), got[2]>>

\* convert_bpe2img: <<result, cache after the call>>
convert_bpe2img(vm, c, img_batch) ==
    ConvertBpe2ImgFrom(bpe2img_mapping_tensor(vm, c), img_batch)

(***************************************************************************)
(* The inputs of the vocabulary mapping: vocabulary tables, code grids and *)
(* id tensors.                                                             *)
(***************************************************************************)

\* The cells of the largest grid a call is given.
MaxCells == 3

\* "%06d" % code: the six digits of a visual token's name.
SixDigits(code) == [i \in 1..6 |-> DigitChars[((code \div Pow(10, 6 - i)) % 10) + 1]]

\* "<|visual token 000012|>"
VisualName(code) == VisualPrefix \o <<" ">> \o SixDigits(code) \o <<"|", ">">>

\* A second name of the same code: "<|visual token_000012|>"
VisualNameAlt(code) == VisualPrefix \o <<"_">> \o SixDigits(code) \o <<"|", ">">>

TextName == <<"t", "e", "x", "t">>

\* The entries every table holds: the two markers and a text token.
BaseTable == (ImageName :> 0) @@ (EolName :> 1) @@ (TextName :> 4)

VisualNameSets ==
    { {VisualName(0), VisualName(1)},
      {VisualName(0), VisualName(2)},
      {VisualName(0), VisualName(1), VisualNameAlt(1)} }

VisualIds == {2, 5}

VocabTables ==
    UNION { {f @@ BaseTable : f \in [names -> VisualIds]} : names \in VisualNameSets }

Shapes(minCols) ==
    {s \in (1..MaxCells) \X (minCols..MaxCells) : s[1] * s[2] <= MaxCells}

Tensors(shape, values) ==
    {[rows |-> shape[1], cols |-> shape[2], at |-> a] :
        a \in [1..shape[1] -> [1..shape[2] -> values]]}

\* Codes a grid may hold: defined ones, an undefined one inside the range,
\* one above every code, a negative one.
CodeInputs == {-1, 0, 1, 2}

CodeGrids == UNION {Tensors(shape, CodeInputs) : shape \in Shapes(0)}

\* Ids an id tensor may hold: visual ids, the end-of-line id (no visual id,
\* below the largest one), an id above every visual id, a negative one.
IdInputs == {-1, 1, 2, 5, 6}

IdTensors == UNION {Tensors(shape, IdInputs) : shape \in Shapes(0)}

(***************************************************************************)
(* The calls on a vocabulary mapping.                                      *)
(***************************************************************************)

InitVocab ==
    /\ config = None
    /\ weight = None
    /\ vocab_map \in VocabTables
    /\ cached = NotCached
    /\ op = "idle"
    /\ arg = None
    /\ ret = Ok(None)
    /\ origin = None

ConvertImg2Bpe ==
    /\ op = "idle"
    /\ \E img_batch \in CodeGrids :
        LET out == convert_img2bpe(vocab_map, cached, img_batch)
        IN  /\ op' = "convert_img2bpe"
            /\ arg' = img_batch
            /\ ret' = out[1]
            /\ cached' = out[2]
            /\ origin' = None
            /\ UNCHANGED <<config, weight, vocab_map>>

ConvertBpe2Img ==
    /\ op = "idle"
    /\ \E img_batch \in IdTensors :
        LET out == convert_bpe2img(vocab_map, cached, img_batch)
        IN  /\ op' = "convert_bpe2img"
            /\ arg' = img_batch
            /\ ret' = out[1]
            /\ cached' = out[2]
            /\ origin' = None
            /\ UNCHANGED <<config, weight, vocab_map>>

\* convert_bpe2img called on what convert_img2bpe has just returned.
ConvertBack ==
    /\ op = "convert_img2bpe"
    /\ ret.raised = "none"
    /\ LET out == convert_bpe2img(vocab_map, cached, ret.value)
       IN  /\ op' = "convert_bpe2img"
           /\ arg' = ret.value
           /\ ret' = out[1]
           /\ cached' = out[2]
           /\ origin' = Some(arg)
           /\ UNCHANGED <<config, weight, vocab_map>>

NextVocab == ConvertImg2Bpe \/ ConvertBpe2Img \/ ConvertBack \/ Return

SpecVocab == InitVocab /\ [][NextVocab]_vars

(***************************************************************************)
(* The construction of a vocabulary mapping, from tables that hold the     *)
(* names it looks for and from tables that lack one.                       *)
(***************************************************************************)

\* Emu3ImageVocabularyMapping.__init__: it keeps the table and the two
\* marker ids dict.get finds, None for a name the table lacks.
Construct(vm) ==
    Ok([vocab_map |-> vm,
        eol_token_id |-> eol_token_id(vm),
        image_token_id |-> image_token_id(vm)])

\* A table with the two markers and two visual tokens.
GoodTable == (VisualName(0) :> 2) @@ (VisualName(1) :> 5) @@ BaseTable

Without(vm, name) == [n \in DOMAIN vm \ {name} |-> vm[n]]

\* Tables that lack the end-of-line name, the image-placeholder name, every
\* visual-token name.
DefectiveTables ==
    {Without(GoodTable, EolName), Without(GoodTable, ImageName), BaseTable,
     Without(BaseTable, EolName), Without(BaseTable, ImageName)}

ConstructTables == VocabTables \cup DefectiveTables

InitConstruct ==
    /\ config = None
    /\ weight = None
    /\ vocab_map = GoodTable
    /\ cached = NotCached
    /\ op = "idle"
    /\ arg = None
    /\ ret = Ok(None)
    /\ origin = None

\* Emu3ImageVocabularyMapping(vocab_map): the new mapping is the one the
\* calls that follow are made on.
ConstructMapping ==
    /\ op = "idle"
    /\ \E vm \in ConstructTables :
        /\ op' = "__init__"
        /\ arg' = vm
        /\ ret' = Construct(vm)
        /\ vocab_map' = vm
        /\ cached' = NotCached
        /\ origin' = None
        /\ UNCHANGED <<config, weight>>

NextConstruct ==
    ConstructMapping \/ ConvertImg2Bpe \/ ConvertBpe2Img \/ ConvertBack \/ Return

SpecConstruct == InitConstruct /\ [][NextConstruct]_vars

(***************************************************************************)
(* The VQ-VAE, as the shapes of the tensors that flow through it.  A       *)
(* tensor's shape is the sequence of its sizes; the values of a code grid  *)
(* are kept as the set of the entries it holds.                            *)
(***************************************************************************)

\* r >>= F: F of r's value, or the error r raised.
Bind(r, F(_)) == IF r.raised # "none" THEN r ELSE F(r.value)

\* int(math.log2(n)), n >= 1: the largest k with 2^k <= n.
RECURSIVE Log2Floor(_)
Log2Floor(n) == IF n < 2 THEN 0 ELSE 1 + Log2Floor(n \div 2)

\* The output size of a convolution along one axis: n inputs, `pad` cells of
\* padding in all, kernel k, stride s.  A padded input shorter than the
\* kernel is a RuntimeError, marked here by the size -1.
ConvOut(n, pad, k, s) ==
    IF n < 0 \/ n + pad < k THEN -1 ELSE ((n + pad - k) \div s) + 1

\* Emu3VQVAEConv3d.__init__: the padding of the two spatial axes is
\* kernel - stride, split (more in front); the temporal axis gets (2, 0).
Conv3dSpatialPad(k, s) ==
    (((k - s) \div 2) + ((k - s) % 2)) + ((k - s) \div 2)

Conv3dTemporalPad == 2 + 0

\* Emu3VQVAEConv3d.forward on (B, C, T, H, W): kernel and stride are
\* <<time, height, width>>.
Conv3d(shape, out_channel, kernel, stride) ==
    LET t == ConvOut(shape[3], Conv3dTemporalPad, kernel[1], stride[1])
        h == ConvOut(shape[4], Conv3dSpatialPad(kernel[2], stride[2]), kernel[2], stride[2])
        w == ConvOut(shape[5], Conv3dSpatialPad(kernel[3], stride[3]), kernel[3], stride[3])
    IN  IF t < 0 \/ h < 0 \/ w < 0 THEN Raise("RuntimeError")
        ELSE Ok(<<shape[1], out_channel, t, h, w>>)

\* The frames F.pad puts in front of the time axis: self.padding += (2, 0).
Conv3dTemporalFront == 2

\* The input frames a convolution reads for output frame i, were the two
\* frames of padding put behind the input.
Conv3dReadsPadBehind(T, k, s, i) ==
    {q \in (s * i)..(s * i + k - 1) : q < T}

\* The input frames, counted from 0, that output frame i of the
\* convolution reads: the kernel covers the padded frames s * i to
\* s * i + k - 1, and padded frame q is input frame q - 2 when there is one.
Conv3dReads(T, k, s, i) ==
    {q - Conv3dTemporalFront :
        q \in {p \in (s * i)..(s * i + k - 1) :
                    p >= Conv3dTemporalFront /\ p < Conv3dTemporalFront + T}}

\* Emu3VQVAEConv3d.forward with, next to the shape of the output, the
\* input frames each output frame is computed from.
Conv3dFrames(shape, out_channel, kernel, stride) ==
    IF Conv3d(shape, out_channel, kernel, stride).raised # "none"
    THEN Conv3d(shape, out_channel, kernel, stride)
    ELSE Ok([shape |-> Conv3d(shape, out_channel, kernel, stride).value,
             reads |-> [i \in 0..(Conv3d(shape, out_channel, kernel, stride).value[3] - 1)
                            |-> Conv3dReads(shape[3], kernel[1], stride[1], i)]])

\* nn.Conv2d(kernel_size=3, stride=1, padding=1) on (B, C, H, W): the input
\* must have the layer's in_channels.
Conv2dSame(shape, in_channel, out_channel) ==
    IF shape[2] # in_channel THEN Raise("RuntimeError")
    ELSE Ok(<<shape[1], out_channel, ConvOut(shape[3], 2, 3, 1), ConvOut(shape[4], 2, 3, 1)>>)

\* TemporalDownsample with stride 1 and the kernel of the other temporal
\* convolutions: it keeps the frames.
TemporalDownsampleStrideOne(shape) == Conv3d(shape, shape[2], <<3, 3, 3>>, <<1, 1, 1>>)

\* Emu3VQVAETemporalDownsample: kernel (4, 3, 3), stride (2, 1, 1)
TemporalDownsample(shape) == Conv3d(shape, shape[2], <<4, 3, 3>>, <<2, 1, 1>>)

\* The 3-D convolution of kernel (3, 3, 3), stride (1, 1, 1) that the
\* temporal residual blocks and the temporal upsample apply.
TemporalConv(shape) == Conv3d(shape, shape[2], <<3, 3, 3>>, <<1, 1, 1>>)

\* Emu3VQVAETemporalResnetBlock.forward: two such convolutions.
TemporalResnetBlock(shape) == Bind(TemporalConv(shape), TemporalConv)

\* TemporalUpsample without the interpolation.
TemporalUpsampleNoInterpolate(shape) == TemporalConv(shape)

\* Emu3VQVAETemporalUpsample.forward: nearest interpolation by 2.0 along the
\* time axis, then the convolution.
TemporalUpsample(shape) ==
    TemporalConv(<<shape[1], shape[2], 2 * shape[3], shape[4], shape[5]>>)

\* F applied n times, stopping at the first error.
RECURSIVE Repeat(_, _, _)
Repeat(F(_), n, r) == IF n = 0 THEN r ELSE Repeat(F, n - 1, Bind(r, F))

\* The strided spatial downsample that closes every resolution stage but the
\* last (ChameleonVQVAEEncoderConvDownsample): it halves height and width.
EncoderConvDownsample(shape) ==
    IF shape[3] < 2 \/ shape[4] < 2 THEN Raise("RuntimeError")
    ELSE Ok(<<shape[1], shape[2], shape[3] \div 2, shape[4] \div 2>>)

\* EncoderConvUpsample that scales the height only.
EncoderConvUpsampleHeightOnly(shape) ==
    Ok(<<shape[1], shape[2], 2 * shape[3], shape[4]>>)

\* Emu3VQVAEEncoderConvUpsample.forward: nearest interpolation by 2.0, then
\* a convolution that keeps the size.
EncoderConvUpsample(shape) ==
    Ok(<<shape[1], shape[2], 2 * shape[3], 2 * shape[4]>>)

\* Emu3VQVAEDownBlock.forward: the residual and attention blocks keep the
\* spatial size; every level but the last ends with a downsample.
DownBlock(cfg, shape) == Repeat(EncoderConvDownsample, cfg.num_resolutions - 1, Ok(shape))

\* Emu3VQVAEUpBlock.forward: every level but the last ends with an upsample.
UpBlock(cfg, shape) == Repeat(EncoderConvUpsample, cfg.num_resolutions - 1, Ok(shape))

\* The temporal blocks of the encoder and of the decoder.
temporal_down_blocks(cfg) == Log2Floor(cfg.temporal_downsample_factor)

temp_upsample_block_num(cfg) == Log2Floor(cfg.temporal_downsample_factor)

\* Emu3VQVAEEncoder.forward on (B, T, C, H, W)
EncoderTemporal(cfg, shape) ==
    Repeat(TemporalResnetBlock, cfg.num_res_blocks,
           Repeat(TemporalDownsample, temporal_down_blocks(cfg), Ok(shape)))

EncoderSpatial(cfg, shape) ==
    Bind(Conv2dSame(shape, cfg.in_channels, cfg.base_channels),
         LAMBDA s : DownBlock(cfg, s))

EncoderForward(cfg, shape) ==
    LET temporal_dim == shape[2]
        \* pixel_values.reshape(-1, C, H, W)
        frames == <<shape[1] * shape[2], shape[3], shape[4], shape[5]>>
        \* hidden_states.reshape(-1, temporal_dim, ...) and the permute
        stacked(s) == <<s[1] \div temporal_dim, cfg.latent_channels, temporal_dim, s[3], s[4]>>
        \* the permute back to (B, T, C, H, W)
        back(s) == Ok(<<s[1], s[3], s[2], s[4], s[5]>>)
    IN  Bind(Bind(EncoderSpatial(cfg, frames),
                  LAMBDA s : EncoderTemporal(cfg, stacked(s))),
             back)

\* Emu3VQVAE.__init__
vision_spatial_factor(cfg) == Pow(2, cfg.num_resolutions - 1)

spatial_scale_factor(cfg) == Pow(2, cfg.num_resolutions - 1)

\* quant_conv and post_quant_conv: kernel (3, 1, 1), stride (1, 1, 1), on
\* (B, C, T, H, W)
QuantConv(shape, out_channel) == Conv3d(shape, out_channel, <<3, 1, 1>>, <<1, 1, 1>>)

\* IntDiv rounding up.
IntDivCeil(size, factor) == (size + factor - 1) \div factor

\* int(size / factor): a true division, truncated.
IntDiv(size, factor) == size \div factor

\* single_image[: rows, : cols]: a slice of the first two axes of one
\* sample, each cut at the axis' size.
Crop(sample, rows, cols) ==
    [i \in 1..Len(sample) |->
        IF i = 1 THEN Min(rows, sample[1])
        ELSE IF i = 2 THEN Min(cols, sample[2])
        ELSE sample[i]]

\* Emu3VQVAE.encode, given the shape of the codes the quantizer returned,
\* (B, T', H', W'): the squeeze of the time axis of an image (a no-op when
\* that axis is not of size 1), then one cropped grid per pair of
\* zip(image_tokens, image_sizes).
CropAll(cfg, is_image, codes, image_sizes) ==
    LET sample == IF is_image /\ codes[2] = 1 THEN <<codes[3], codes[4]>>
                  ELSE <<codes[2], codes[3], codes[4]>>
        n == Min(codes[1], Len(image_sizes))
    IN  [i \in 1..n |->
            [shape |-> Crop(sample,
                            IntDiv(image_sizes[i][1], vision_spatial_factor(cfg)),
                            IntDiv(image_sizes[i][2], vision_spatial_factor(cfg))),
             within |-> 0..(cfg.codebook_size - 1)]]

\* The shape (B, T', H', W') of the codes Emu3VQVAE.encode computes for a
\* pixel shape, (B, C, H, W) or (B, T, C, H, W), before the crop.
EncodeCodes(cfg, pixel_values) ==
    LET is_image == Len(pixel_values) = 4
        \* unsqueeze(1).repeat(1, temporal, 1, 1, 1)
        video == IF is_image
                 THEN <<pixel_values[1], cfg.temporal_downsample_factor,
                        pixel_values[2], pixel_values[3], pixel_values[4]>>
                 ELSE pixel_values
        \* the permute to (B, C, T, H, W), quant_conv, the permute back and
        \* the quantizer, which drops the channel axis
        codes(s) == Bind(QuantConv(<<s[1], s[3], s[2], s[4], s[5]>>, cfg.embed_dim),
                         LAMBDA q : Ok(<<q[1], q[3], q[4], q[5]>>))
    IN  Bind(EncoderForward(cfg, video), codes)

\* Emu3VQVAE.encode on a pixel shape.
encode(cfg, pixel_values, image_sizes) ==
    \* batch_size, temporal, channels, height, width = pixel_values.shape
    IF Len(pixel_values) \notin {4, 5} THEN Raise("ValueError")
    ELSE Bind(EncodeCodes(cfg, pixel_values),
              LAMBDA c : Ok(CropAll(cfg, Len(pixel_values) = 4, c, image_sizes)))

\* Emu3VQVAEDecoder.forward on two (B, T, C, H, W) shapes: the result is
\* (B * T', out_channels, H', W').
DecoderForward(cfg, hidden_states, quant_states) ==
    IF hidden_states[3] # quant_states[3] THEN Raise("RuntimeError")  \* torch.cat
    ELSE LET \* cat along the batch axis and the permute to (B, C, T, H, W)
             both == <<2 * hidden_states[1], hidden_states[3], hidden_states[2],
                       hidden_states[4], hidden_states[5]>>
             \* the permute back, chunk(2) and reshape(-1, C, H, W)
             frames(s) == <<(s[1] \div 2) * s[3], s[2], s[4], s[5]>>
         IN  Bind(Bind(Bind(Repeat(TemporalUpsample, temp_upsample_block_num(cfg),
                                   Repeat(TemporalResnetBlock, cfg.num_res_blocks, Ok(both))),
                            LAMBDA s : Conv2dSame(frames(s), cfg.latent_channels, cfg.base_channels)),
                       LAMBDA s : UpBlock(cfg, s)),
                  LAMBDA s : Conv2dSame(s, cfg.base_channels, cfg.out_channels))

\* Tensor.reshape: the sizes must hold as many elements as the tensor.
RECURSIVE Numel(_)
Numel(shape) == IF shape = <<>> THEN 1 ELSE Head(shape) * Numel(Tail(shape))

Reshape(shape, sizes) ==
    IF Numel(shape) = Numel(sizes) THEN Ok(sizes) ELSE Raise("RuntimeError")

\* An embedding lookup that takes a negative index as one counted from the
\* end of the codebook, the way tensor indexing does.
EmbeddingWrapsNegative(cfg, entries) ==
    IF \E i \in entries : i < -cfg.codebook_size \/ i >= cfg.codebook_size
    THEN Raise("IndexError")
    ELSE Ok(cfg.embed_dim)

\* self.quantize.embedding(hidden_states.flatten()): nn.Embedding accepts
\* the indices 0 .. num_embeddings - 1 and raises on any other; the result
\* is the number of channels of the rows it returns.
Embedding(cfg, entries) ==
    IF \E i \in entries : i < 0 \/ i >= cfg.codebook_size
    THEN Raise("IndexError")
    ELSE Ok(cfg.embed_dim)

\* Emu3VQVAE.decode on a code grid [shape, entries]: (B, h, w) or
\* (B, t, h, w).  The embedding lookup raises on an index outside the
\* codebook.
decode(cfg, codes) ==
    LET is_image == Len(codes.shape) = 3
        grid == IF is_image
                THEN <<codes.shape[1], 1, codes.shape[2], codes.shape[3]>>
                ELSE codes.shape
        batch_size == grid[1]
        temporal == grid[2]
        height == grid[3]
        width == grid[4]
        \* quant.view(...).permute(0, 4, 1, 2, 3): (B, C, T, H, W)
        quant(channels) == <<batch_size, channels, temporal, height, width>>
        time_first(s) == <<s[1], s[3], s[2], s[4], s[5]>>
        reshaped(video) ==
            Reshape(video, <<batch_size, temporal * cfg.temporal_downsample_factor,
                             cfg.out_channels, height * spatial_scale_factor(cfg),
                             width * spatial_scale_factor(cfg)>>)
        \* video[:, 0] if is_image else video
        result(video) == IF is_image THEN Ok(<<video[1], video[3], video[4], video[5]>>)
                         ELSE Ok(video)
        decoded(channels) ==
            Bind(QuantConv(quant(channels), cfg.latent_channels),
                 LAMBDA post_quant :
                    DecoderForward(cfg, time_first(post_quant), time_first(quant(channels))))
    IN  Bind(Bind(Bind(Embedding(cfg, codes.entries), decoded), reshaped), result)

(***************************************************************************)
(* The inputs of the VQ-VAE: configurations, pixel shapes with the         *)
(* declared size of every sample, and code grids.                          *)
(***************************************************************************)

\* The largest temporal_downsample_factor a configuration has.
MaxTemporalFactor == 4

\* The most resolution stages, len(channel_multiplier), a configuration has.
MaxResolutions == 4

\* The most frames a clip has.
MaxFrames == 6

Configs ==
    [temporal_downsample_factor : 1..MaxTemporalFactor,
     num_resolutions : 1..MaxResolutions,
     num_res_blocks : {2},
     in_channels : {3},
     out_channels : {1, 3},
     latent_channels : {4},
     embed_dim : {4},
     base_channels : {32},
     codebook_size : {2}]

\* Heights and widths of a padded batch.
Sides == {1, 2, 3, 4, 8}

BatchSizes == {1, 2}

\* image_sizes of a padded batch of B samples on a canvas of H x W: the
\* first sample has any size within the canvas, the others fill it.
ImageSizes(B, H, W) ==
    {[i \in 1..B |-> IF i = 1 THEN <<h, w>> ELSE <<H, W>>] :
        h \in {x \in Sides : x <= H}, w \in {x \in Sides : x <= W}}

ImageInputs(cfg) ==
    UNION {{[pixel_values |-> <<B, cfg.in_channels, H, W>>, image_sizes |-> sizes] :
                sizes \in ImageSizes(B, H, W)} :
            B \in BatchSizes, H \in Sides, W \in Sides}

\* Image batches whose image_sizes holds fewer or more entries than the
\* batch has samples, each entry the full canvas.
MismatchedInputs(cfg) ==
    {input \in {[pixel_values |-> <<B, cfg.in_channels, H, W>>,
                 image_sizes |-> [i \in 1..n |-> <<H, W>>]] :
                    B \in BatchSizes, n \in 1..3, H \in Sides, W \in Sides} :
        Len(input.image_sizes) # input.pixel_values[1]}

ClipShapes(cfg) ==
    {<<B, T, cfg.in_channels, H, W>> :
        B \in BatchSizes, T \in 1..MaxFrames, H \in Sides, W \in Sides}

ClipInputs(cfg) ==
    UNION {{[pixel_values |-> shape, image_sizes |-> sizes] :
                sizes \in ImageSizes(shape[1], shape[4], shape[5])} :
            shape \in ClipShapes(cfg)}

\* Code grids given to decode: (B, h, w) and (B, t, h, w), with the set of
\* the entries they hold: inside the codebook, negative, above it.
GridSides == {1, 2}

GridShapes ==
    {<<B, h, w>> : B \in BatchSizes, h \in GridSides, w \in GridSides}
    \cup {<<B, t, h, w>> : B \in BatchSizes, t \in 1..MaxFrames,
                           h \in GridSides, w \in GridSides}

EntrySets(cfg) ==
    {{0}, 0..(cfg.codebook_size - 1), {-1, 0}, {0, cfg.codebook_size}}

CodeGridInputs(cfg) ==
    {[shape |-> shape, entries |-> entries] :
        shape \in GridShapes, entries \in EntrySets(cfg)}

(***************************************************************************)
(* The calls on a VQ-VAE.                                                  *)
(***************************************************************************)

InitVQVAE ==
    /\ config \in Configs
    /\ weight = None
    /\ vocab_map = BaseTable
    /\ cached = NotCached
    /\ op = "idle"
    /\ arg = None
    /\ ret = Ok(None)
    /\ origin = None

Encode ==
    /\ op = "idle"
    /\ \E input \in ImageInputs(config) \cup ClipInputs(config)
                      \cup MismatchedInputs(config) :
        /\ op' = "encode"
        /\ arg' = input
        /\ ret' = encode(config, input.pixel_values, input.image_sizes)
        /\ origin' = None
        /\ UNCHANGED <<config, weight, vocab_map, cached>>

\* self.encoder(pixel_values), the encoder called on its own
Encoder ==
    /\ op = "idle"
    /\ \E pixel_values \in ClipShapes(config) :
        /\ op' = "encoder"
        /\ arg' = pixel_values
        /\ ret' = EncoderForward(config, pixel_values)
        /\ origin' = None
        /\ UNCHANGED <<config, weight, vocab_map, cached>>

Decode ==
    /\ op = "idle"
    /\ \E codes \in CodeGridInputs(config) :
        /\ op' = "decode"
        /\ arg' = codes
        /\ ret' = decode(config, codes)
        /\ origin' = None
        /\ UNCHANGED <<config, weight, vocab_map, cached>>

\* decode called on the stacked grids encode has just returned: the grids
\* stack when they all have one shape.
DecodeEncoded ==
    /\ op = "encode"
    /\ ret.raised = "none"
    /\ Len(ret.value) >= 1
    /\ \A i \in 1..Len(ret.value) : ret.value[i].shape = ret.value[1].shape
    /\ LET codes == [shape |-> <<Len(ret.value)>> \o ret.value[1].shape,
                     entries |-> ret.value[1].within]
       IN  /\ op' = "decode"
           /\ arg' = codes
           /\ ret' = decode(config, codes)
           /\ origin' = Some(arg)
           /\ UNCHANGED <<config, weight, vocab_map, cached>>

NextVQVAE == Encode \/ Encoder \/ Decode \/ DecodeEncoded \/ Return

SpecVQVAE == InitVQVAE /\ [][NextVQVAE]_vars

(***************************************************************************)
(* Emu3VQVAEVectorQuantizer.  The codebook and the latent grid are float32 *)
(* tensors; the model takes the values that are integers, which float32    *)
(* holds exactly up to 2^24 and rounds, to the nearest value and to an     *)
(* even significand on a tie, above it.                                    *)
(***************************************************************************)

\* The bits of a float32 significand, the dtype nn.Embedding gives the
\* codebook.
Float32Precision == 24

\* Up to this size every integer is a float32.
Float32Exact == Pow(2, Float32Precision)

Abs(x) == IF x < 0 THEN -x ELSE x

\* The distance between neighbouring float32 values at an integer x.
RECURSIVE Ulp(_)
Ulp(x) == IF Abs(x) < Float32Exact THEN 1 ELSE 2 * Ulp(Abs(x) \div 2)

\* The float32 value an exact integer result is stored as.
Round32(x) ==
    LET q == Ulp(x)
        lo == (x \div q) * q
        r == x - lo
    IN  IF 2 * r < q THEN lo
        ELSE IF 2 * r > q THEN lo + q
        ELSE IF (lo \div q) % 2 = 0 THEN lo ELSE lo + q

\* torch.sum(x ** 2, dim=1) for one row: every square and every partial sum
\* is a float32.
RECURSIVE SumSquares(_, _)
SumSquares(v, n) ==
    IF n = 0 THEN 0
    ELSE Round32(SumSquares(v, n - 1) + Round32(v[n] * v[n]))

\* One entry of torch.matmul(z, weight.transpose(0, 1)): the products are
\* accumulated in float32.  A kernel that accumulates with fused
\* multiply-add does not round the product on its own.
RECURSIVE Matmul(_, _, _, _)
Matmul(z, e, n, fused) ==
    IF n = 0 THEN 0
    ELSE IF fused THEN Round32(Matmul(z, e, n - 1, fused) + z[n] * e[n])
    ELSE Round32(Matmul(z, e, n - 1, fused) + Round32(z[n] * e[n]))

\* The expanded form with the cross term added.
ExpandedDistancePlus(z, e, fused) ==
    Round32(Round32(SumSquares(z, Len(z)) + SumSquares(e, Len(e)))
            + Round32(2 * Matmul(z, e, Len(z), fused)))

\* distances[b][n] = hidden_state_sum + embedding_sum - 2 * matmul
ExpandedDistance(z, e, fused) ==
    Round32(Round32(SumSquares(z, Len(z)) + SumSquares(e, Len(e)))
            - Round32(2 * Matmul(z, e, Len(z), fused)))

\* Argmin counting the codes from 1.
ArgminOneBased(row) ==
    CHOOSE j \in 1..Len(row) :
        /\ \A k \in 1..Len(row) : row[j] <= row[k]
        /\ \A k \in 1..(j - 1) : row[k] > row[j]

\* The index of the largest entry.
Argmax(row) ==
    (CHOOSE j \in 1..Len(row) :
        /\ \A k \in 1..Len(row) : row[j] >= row[k]
        /\ \A k \in 1..(j - 1) : row[k] < row[j]) - 1

\* The index of the last minimal entry.
ArgminLast(row) ==
    (CHOOSE j \in 1..Len(row) :
        /\ \A k \in 1..Len(row) : row[j] <= row[k]
        /\ \A k \in (j + 1)..Len(row) : row[k] > row[j]) - 1

\* torch.argmin(distances, dim=1) for one row: the index, counted from 0,
\* of the first minimal entry.
Argmin(row) ==
    (CHOOSE j \in 1..Len(row) :
        /\ \A k \in 1..Len(row) : row[j] <= row[k]
        /\ \A k \in 1..(j - 1) : row[k] > row[j]) - 1

\* The places <<b, t, h, w>> of a (B, T, C, H, W) tensor, counted from 1.
Positions(shape) ==
    (1..shape[1]) \X (1..shape[2]) \X (1..shape[4]) \X (1..shape[5])

\* The row of the place in permute(0, 1, 3, 4, 2).view(-1, channels), and
\* its place in .view(batch_size, temporal, height, width).
FlatIndex(shape, pos) ==
    (((pos[1] - 1) * shape[2] + (pos[2] - 1)) * shape[4] + (pos[3] - 1)) * shape[5]
    + pos[4]

\* hidden_state_flattened: one row of channels per place.
Flatten(hidden_state) ==
    [k \in 1..Cardinality(Positions(hidden_state.shape)) |->
        hidden_state.at[CHOOSE pos \in Positions(hidden_state.shape) :
                            FlatIndex(hidden_state.shape, pos) = k]]

\* distances: one row per place, one entry per code.
Distances(w, flattened, fused) ==
    [k \in 1..Len(flattened) |->
        [n \in 1..Len(w) |-> ExpandedDistance(flattened[k], w[n], fused)]]

\* Emu3VQVAEVectorQuantizer.forward: hidden_state is [shape, at], at[pos]
\* the channels at a place; the result is the grid of indices [shape, at].
QuantizerForward(w, hidden_state, fused) ==
    LET distances == Distances(w, Flatten(hidden_state), fused)
        min_encoding_indices == [k \in 1..Len(distances) |-> Argmin(distances[k])]
    IN  Ok([shape |-> <<hidden_state.shape[1], hidden_state.shape[2],
                        hidden_state.shape[4], hidden_state.shape[5]>>,
            at |-> [pos \in Positions(hidden_state.shape) |->
                        min_encoding_indices[FlatIndex(hidden_state.shape, pos)]]])

(***************************************************************************)
(* The inputs of the quantizer: codebooks and latent grids.                *)
(***************************************************************************)

\* The most codes a codebook has.
MaxCodes == 2

\* The most places a latent grid has.
MaxPositions == 2

\* embed_dim
Channels == {1, 2}

\* The values of a channel: around 2^12, where squares reach 2^24, and
\* small ones.
Scalars(C) == IF C = 1 THEN {-1, 0, 4096, 4097} ELSE {1, 4097}

Vectors(C) == [1..C -> Scalars(C)]

Codebooks(C) == UNION {[1..N -> Vectors(C)] : N \in 1..MaxCodes}

LatentShapes(C) ==
    {shape \in {<<B, T, C, H, W>> : B \in 1..MaxPositions, T \in 1..MaxPositions,
                                    H \in 1..MaxPositions, W \in 1..MaxPositions} :
        Cardinality(Positions(shape)) <= MaxPositions}

LatentGrids(C) ==
    UNION {{[shape |-> shape, at |-> at] : at \in [Positions(shape) -> Vectors(C)]} :
            shape \in LatentShapes(C)}

QuantizerConfig(w) ==
    [temporal_downsample_factor |-> 4,
     num_resolutions |-> 4,
     num_res_blocks |-> 2,
     in_channels |-> 3,
     out_channels |-> 3,
     latent_channels |-> 4,
     embed_dim |-> Len(w[1]),
     base_channels |-> 32,
     codebook_size |-> Len(w)]

InitQuantizer ==
    /\ \E C \in Channels : \E w \in Codebooks(C) :
        /\ weight = Some(w)
        /\ config = QuantizerConfig(w)
    /\ vocab_map = BaseTable
    /\ cached = NotCached
    /\ op = "idle"
    /\ arg = None
    /\ ret = Ok(None)
    /\ origin = None

\* self.quantize(hidden_states) on a latent grid of embed_dim channels, on
\* a build whose matmul kernel fuses or does not.
Quantize ==
    /\ op = "idle"
    /\ \E hidden_state \in LatentGrids(config.embed_dim), fused \in BOOLEAN :
        /\ op' = "quantize"
        /\ arg' = [hidden_state |-> hidden_state, fused |-> fused]
        /\ ret' = QuantizerForward(weight.v, hidden_state, fused)
        /\ origin' = None
        /\ UNCHANGED <<config, weight, vocab_map, cached>>

NextQuantizer == Quantize \/ Return

SpecQuantizer == InitQuantizer /\ [][NextQuantizer]_vars

(***************************************************************************)
(* Emu3Model.get_image_tokens and get_image_features.  The codes of a      *)
(* batch are those the quantizer chose for its canvas: codes[i][r][c] for  *)
(* sample i, row r and column c of the grid before the crop.               *)
(***************************************************************************)

\* tokens.flatten() of a 2-D tensor: row after row.
Flatten2(t) ==
    [k \in 1..(t.rows * t.cols) |->
        t.at[((k - 1) \div t.cols) + 1][((k - 1) % t.cols) + 1]]

\* image_tokens_list: the cropped grids with the codes they hold.
ImageTokensList(grids, codes) ==
    [i \in 1..Len(grids) |->
        Tensor2(grids[i].shape[1], grids[i].shape[2], LAMBDA r, c : codes[i][r][c])]

\* One element of the list comprehension, after the elements before it:
\* done is <<the ids so far or an error, the cache>>.
ConvertStepFrom(ids, got) ==
    IF got[1].raised # "none" THEN got
    ELSE <<Ok(ids \o Flatten2(got[1].value)), got[2]>>

ConvertStep(vm, done, tokens) ==
    IF done[1].raised # "none" THEN done
    ELSE ConvertStepFrom(done[1].value, convert_img2bpe(vm, done[2], tokens))

\* torch.cat([convert_img2bpe(tokens).flatten() for tokens in list])
RECURSIVE ConvertAll(_, _, _, _)
ConvertAll(vm, c, list, n) ==
    IF n = 0 THEN <<Ok(<<>>), c>>
    ELSE ConvertStep(vm, ConvertAll(vm, c, list, n - 1), list[n])

\* The body of get_image_tokens, given what encode returned.  A grid that
\* kept its time axis does not concatenate with the 2-D end-of-line column.
GetImageTokensFrom(vm, c, enc, codes) ==
    IF enc.raised # "none" THEN <<enc, c>>
    ELSE IF \E i \in 1..Len(enc.value) : Len(enc.value[i].shape) # 2
    THEN <<Raise("RuntimeError"), c>>
    ELSE ConvertAll(vm, c, ImageTokensList(enc.value, codes), Len(enc.value))

\* get_image_tokens: <<result, cache after the call>>
get_image_tokens(cfg, vm, c, input, codes) ==
    GetImageTokensFrom(vm, c, encode(cfg, input.pixel_values, input.image_sizes), codes)

\* split_sizes without the end-of-line id of every row.
SplitSizesNoEol(cfg, image_sizes) ==
    [i \in 1..Len(image_sizes) |->
        (image_sizes[i][1] \div vision_spatial_factor(cfg))
        * (image_sizes[i][2] \div vision_spatial_factor(cfg))]

\* split_sizes: (height // f) * (width // f + 1) for every declared size
SplitSizes(cfg, image_sizes) ==
    [i \in 1..Len(image_sizes) |->
        (image_sizes[i][1] \div vision_spatial_factor(cfg))
        * ((image_sizes[i][2] \div vision_spatial_factor(cfg)) + 1)]

RECURSIVE SumSeq(_, _)
SumSeq(sizes, n) == IF n = 0 THEN 0 ELSE SumSeq(sizes, n - 1) + sizes[n]

\* torch.split(x, split_sizes): the sizes have to sum to the length.
Split(x, sizes) ==
    IF SumSeq(sizes, Len(sizes)) # Len(x) THEN Raise("RuntimeError")
    ELSE Ok([i \in 1..Len(sizes) |->
                SubSeq(x, SumSeq(sizes, i - 1) + 1, SumSeq(sizes, i))])

\* self.get_input_embeddings()(image_tokens): the row of the embedding
\* table every id selects.
Embed(ids) == [k \in 1..Len(ids) |-> [row |-> ids[k]]]

\* The body of get_image_features, given what get_image_tokens returned.
GetImageFeaturesFrom(cfg, got, image_sizes) ==
    IF got[1].raised # "none" THEN got
    ELSE <<Split(Embed(got[1].value), SplitSizes(cfg, image_sizes)), got[2]>>

\* get_image_features: <<result, cache after the call>>
get_image_features(cfg, vm, c, input, codes) ==
    GetImageFeaturesFrom(cfg, get_image_tokens(cfg, vm, c, input, codes),
                         input.image_sizes)

(***************************************************************************)
(* The inputs of the model: image batches with the codes of their canvas.  *)
(***************************************************************************)

\* The cells of the largest canvas grid whose codes are enumerated.
MaxGridCells == 4

ModelConfigs == {cfg \in Configs : cfg.out_channels = cfg.in_channels}

\* Tables that name the codes of the codebook and no other, each once.
ModelTables ==
    {vm \in VocabTables :
        DOMAIN vm = DOMAIN BaseTable \cup {VisualName(0), VisualName(1)}}

\* Heights and widths of a padded batch of the model.
ModelSides == {3, 8}

\* image_sizes of a padded batch of B images on a canvas of H x W: the
\* first image is smaller than the canvas or fills it, the others fill it.
ModelImageSizes(B, H, W) ==
    {[i \in 1..B |-> IF i = 1 THEN <<h, w>> ELSE <<H, W>>] :
        h \in {1, 3, H}, w \in {2, W}}

\* The canvas of the documented example, and declared sizes on it.
ExampleCanvas == <<256, 256>>

ExampleSizes == {<<12, 20>>, ExampleCanvas}

ModelInputs(cfg) ==
    UNION {{[pixel_values |-> <<B, cfg.in_channels, H, W>>, image_sizes |-> sizes] :
                sizes \in ModelImageSizes(B, H, W)} :
            B \in BatchSizes, H \in ModelSides, W \in ModelSides}
    \cup (IF vision_spatial_factor(cfg) = 8
          THEN {[pixel_values |-> <<B, cfg.in_channels, ExampleCanvas[1], ExampleCanvas[2]>>,
                 image_sizes |-> [i \in 1..B |-> IF i = 1 THEN size ELSE ExampleCanvas]] :
                    B \in BatchSizes, size \in ExampleSizes}
          ELSE {})

\* The codes of a canvas of B grids of rows x cols: every choice for a
\* small canvas, two patterns for a large one.
CanvasCodes(cfg, B, rows, cols) ==
    IF B * rows * cols <= MaxGridCells
    THEN [1..B -> [1..rows -> [1..cols -> 0..(cfg.codebook_size - 1)]]]
    ELSE {[i \in 1..B |-> [r \in 1..rows |-> [c \in 1..cols |-> 0]]],
          [i \in 1..B |-> [r \in 1..rows |-> [c \in 1..cols |->
                                                (i + r + c) % cfg.codebook_size]]]}

\* The codes the quantizer may choose for an input: squeeze(1) leaves
\* (B, H', W') of an image batch.
CodesOf(cfg, input) ==
    IF EncodeCodes(cfg, input.pixel_values).raised # "none" THEN {<<>>}
    ELSE CanvasCodes(cfg, EncodeCodes(cfg, input.pixel_values).value[1],
                     EncodeCodes(cfg, input.pixel_values).value[3],
                     EncodeCodes(cfg, input.pixel_values).value[4])

InitModel ==
    /\ config \in ModelConfigs
    /\ weight = None
    /\ vocab_map \in ModelTables
    /\ cached = NotCached
    /\ op = "idle"
    /\ arg = None
    /\ ret = Ok(None)
    /\ origin = None

GetImageTokens ==
    /\ op = "idle"
    /\ \E input \in ModelInputs(config) : \E codes \in CodesOf(config, input) :
        LET got == get_image_tokens(config, vocab_map, cached, input, codes)
        IN
        /\ op' = "get_image_tokens"
        /\ arg' = [pixel_values |-> input.pixel_values,
                   image_sizes |-> input.image_sizes, codes |-> codes]
        /\ ret' = got[1]
        /\ cached' = got[2]
        /\ origin' = None
        /\ UNCHANGED <<config, weight, vocab_map>>

GetImageFeatures ==
    /\ op = "idle"
    /\ \E input \in ModelInputs(config) : \E codes \in CodesOf(config, input) :
        LET got == get_image_features(config, vocab_map, cached, input, codes)
        IN
        /\ op' = "get_image_features"
        /\ arg' = [pixel_values |-> input.pixel_values,
                   image_sizes |-> input.image_sizes, codes |-> codes]
        /\ ret' = got[1]
        /\ cached' = got[2]
        /\ origin' = None
        /\ UNCHANGED <<config, weight, vocab_map>>

NextModel == GetImageTokens \/ GetImageFeatures \/ Return

SpecModel == InitModel /\ [][NextModel]_vars

(***************************************************************************)
(* Concurrent calls on one model and one vocabulary mapping.  Every thread *)
(* makes one call at a time; a call on the mapping runs in steps, one for  *)
(* each read of a cached property, and the threads' steps interleave.      *)
(* functools.cached_property takes no lock: a read that finds no value in  *)
(* the instance's __dict__ runs the property's function and stores what it *)
(* returned.  Here op, arg and ret hold one entry per thread, and origin   *)
(* the thread's position: [pc, stack, got], the stack holding a frame      *)
(* [prop, got] for every property function the thread is inside of, got    *)
(* the values its reads have returned so far.                              *)
(***************************************************************************)

\* The most threads that call at once.
MaxThreads == 2

Threads == 1..MaxThreads

\* The property a property's function reads.
Dep(P) ==
    CASE P = "img2bpe" -> "image_tokens_str"
      [] P = "bpe2img" -> "img2bpe"
      [] P = "bpe2img_mapping_tensor" -> "bpe2img"
      [] P = "img2bpe_mapping_tensor" -> "img2bpe"
      [] OTHER -> "none"

\* How many times its function reads it: the mapping tensors read their
\* dict for max(d.keys()) and again for d.items().
Reads(P) ==
    CASE P = "image_tokens_str" -> 0
      [] P = "img2bpe" -> 1
      [] P = "bpe2img" -> 1
      [] OTHER -> 2

\* Storing a mapping tensor before it is filled: zeros in place of it.
StoreUnfilled(c, P, v) ==
    IF P \in {"bpe2img_mapping_tensor", "img2bpe_mapping_tensor"}
    THEN [c EXCEPT ![P] = Some([i \in 1..Len(v) |-> 0])]
    ELSE [c EXCEPT ![P] = Some(v)]

\* cache[self.attrname] = val
Store(c, P, v) == [c EXCEPT ![P] = Some(v)]

\* torch.zeros(max(keys.keys()) + 1) filled with mapping[k] = v for the
\* items of the second read.
FillMappingTensor(keys, items) ==
    IF keys = <<>> THEN Raise("ValueError")
    ELSE IF \E k \in DictKeys(items) : k > SetMax(DictKeys(keys))
    THEN Raise("IndexError")
    ELSE Ok([i \in 1..(SetMax(DictKeys(keys)) + 1) |->
                IF DictHas(items, i - 1) THEN DictGet(items, i - 1) ELSE 0])

\* What the function of property P returns, given what its reads returned.
PropertyBody(vm, P, got) ==
    CASE P = "image_tokens_str" -> image_tokens_str(vm, NotCached)[1]
      [] P = "img2bpe" -> Img2BpeOf(vm, got[1], NotCached)[1]
      [] P = "bpe2img" -> Bpe2ImgFrom(<<Ok(got[1]), NotCached>>)[1]
      [] OTHER -> FillMappingTensor(got[1], got[2])

\* The mapping tensor a conversion reads.
TensorOf(call) ==
    IF call = "convert_img2bpe" THEN "img2bpe_mapping_tensor"
    ELSE "bpe2img_mapping_tensor"

\* The rest of a conversion, once it holds the mapping tensor.
ConversionResult(vm, call, mapping, input) ==
    IF call = "convert_img2bpe"
    THEN ConvertImg2BpeFrom(eol_token_id(vm).v, <<Ok(mapping), NotCached>>, input)[1]
    ELSE ConvertBpe2ImgFrom(<<Ok(mapping), NotCached>>, input)[1]

IdleThread == [pc |-> "idle", stack |-> <<>>, got |-> <<>>]

\* The calls the threads make: a conversion each way, an encode, a decode.
ThreadCalls ==
    {[call |-> "convert_img2bpe", input |-> [rows |-> 1, cols |-> 2, at |-> <<<<0, 1>>>>]],
     [call |-> "convert_bpe2img", input |-> [rows |-> 1, cols |-> 2, at |-> <<<<5, 1>>>>]],
     [call |-> "encode",
      input |-> [pixel_values |-> <<1, 3, 8, 8>>, image_sizes |-> <<<<8, 8>>>>]],
     [call |-> "decode", input |-> [shape |-> <<1, 1, 1>>, entries |-> {0}]]}

\* Tables the threads share: distinct ids, one shared id, no
\* end-of-line name.
ThreadTables ==
    {GoodTable,
     (VisualName(0) :> 5) @@ (VisualName(1) :> 5) @@ BaseTable,
     Without(GoodTable, EolName)}

ThreadConfig ==
    [temporal_downsample_factor |-> 4,
     num_resolutions |-> 4,
     num_res_blocks |-> 2,
     in_channels |-> 3,
     out_channels |-> 3,
     latent_channels |-> 4,
     embed_dim |-> 4,
     base_channels |-> 32,
     codebook_size |-> 2]

InitThreads ==
    /\ config = ThreadConfig
    /\ weight = None
    /\ vocab_map \in ThreadTables
    /\ cached = NotCached
    /\ op = [t \in Threads |-> "idle"]
    /\ arg = [t \in Threads |-> None]
    /\ ret = [t \in Threads |-> Ok(None)]
    /\ origin = [t \in Threads |-> IdleThread]

\* A thread enters a call.
Call(t) ==
    /\ origin[t].pc = "idle"
    /\ \E c \in ThreadCalls :
        /\ op' = [op EXCEPT ![t] = c.call]
        /\ arg' = [arg EXCEPT ![t] = c.input]
        /\ origin' = [origin EXCEPT ![t] = [pc |-> "start", stack |-> <<>>, got |-> <<>>]]
    /\ UNCHANGED <<config, weight, vocab_map, cached, ret>>

\* The call up to its first read of the mapping.  encode and decode read
\* the configuration and the weights only and run to their end;
\* convert_img2bpe builds eol_row, a TypeError without an end-of-line id.
Start(t) ==
    /\ origin[t].pc = "start"
    /\ IF op[t] = "encode"
       THEN /\ ret' = [ret EXCEPT ![t] = encode(config, arg[t].pixel_values,
                                                arg[t].image_sizes)]
            /\ origin' = [origin EXCEPT ![t].pc = "done"]
       ELSE IF op[t] = "decode"
       THEN /\ ret' = [ret EXCEPT ![t] = decode(config, arg[t])]
            /\ origin' = [origin EXCEPT ![t].pc = "done"]
       ELSE IF op[t] = "convert_img2bpe" /\ ~eol_token_id(vocab_map).some
       THEN /\ ret' = [ret EXCEPT ![t] = Raise("TypeError")]
            /\ origin' = [origin EXCEPT ![t].pc = "done"]
       ELSE /\ ret' = ret
            /\ origin' = [origin EXCEPT ![t].pc = "read"]
    /\ UNCHANGED <<config, weight, vocab_map, cached, op, arg>>

\* The property the thread reads next: that of the innermost function it
\* is in, or the call's mapping tensor.
NextRead(t) ==
    IF origin[t].stack = <<>> THEN TensorOf(op[t])
    ELSE Dep(origin[t].stack[Len(origin[t].stack)].prop)

\* Does the thread's next step read a property?
ReadsNext(t) ==
    /\ origin[t].pc = "read"
    /\ IF origin[t].stack = <<>> THEN TRUE
       ELSE Len(origin[t].stack[Len(origin[t].stack)].got)
                < Reads(origin[t].stack[Len(origin[t].stack)].prop)

\* The value v reaches the reader: the innermost function, or the call.
Deliver(th, v) ==
    IF th.stack = <<>> THEN [th EXCEPT !.got = Append(th.got, v), !.pc = "finish"]
    ELSE [th EXCEPT !.stack[Len(th.stack)].got =
                        Append(th.stack[Len(th.stack)].got, v)]

\* cached_property.__get__: the value in the instance's __dict__ if there
\* is one, else a call of the property's function.
Read(t) ==
    /\ ReadsNext(t)
    /\ IF cached[NextRead(t)].some
       THEN origin' = [origin EXCEPT ![t] = Deliver(origin[t], cached[NextRead(t)].v)]
       ELSE origin' = [origin EXCEPT ![t].stack =
                            Append(origin[t].stack, [prop |-> NextRead(t), got |-> <<>>])]
    /\ UNCHANGED <<config, weight, vocab_map, cached, op, arg, ret>>

\* The innermost function returns: its value is stored and handed to the
\* reader; an exception ends the call and stores nothing.
Complete(t) ==
    /\ origin[t].pc = "read"
    /\ origin[t].stack # <<>>
    /\ ~ReadsNext(t)
    /\ LET top == origin[t].stack[Len(origin[t].stack)]
           body == PropertyBody(vocab_map, top.prop, top.got)
           popped == [origin[t] EXCEPT !.stack = SubSeq(origin[t].stack, 1,
                                                        Len(origin[t].stack) - 1)]
       IN  IF body.raised # "none"
           THEN /\ ret' = [ret EXCEPT ![t] = body]
                /\ origin' = [origin EXCEPT ![t] = [pc |-> "done", stack |-> <<>>,
                                                    got |-> <<>>]]
                /\ cached' = cached
           ELSE /\ ret' = ret
                /\ origin' = [origin EXCEPT ![t] = Deliver(popped, body.value)]
                /\ cached' = Store(cached, top.prop, body.value)
    /\ UNCHANGED <<config, weight, vocab_map, op, arg>>

\* The conversion indexes the mapping tensor it holds and returns.
Finish(t) ==
    /\ origin[t].pc = "finish"
    /\ ret' = [ret EXCEPT ![t] = ConversionResult(vocab_map, op[t], origin[t].got[1],
                                                  arg[t])]
    /\ origin' = [origin EXCEPT ![t].pc = "done"]
    /\ UNCHANGED <<config, weight, vocab_map, cached, op, arg>>

\* The caller takes the result; the thread is free for its next call.
ThreadReturn(t) ==
    /\ origin[t].pc = "done"
    /\ op' = [op EXCEPT ![t] = "idle"]
    /\ arg' = [arg EXCEPT ![t] = None]
    /\ ret' = [ret EXCEPT ![t] = Ok(None)]
    /\ origin' = [origin EXCEPT ![t] = IdleThread]
    /\ UNCHANGED <<config, weight, vocab_map, cached>>

NextThreads ==
    \E t \in Threads :
        \/ Call(t)
        \/ Start(t)
        \/ Read(t)
        \/ Complete(t)
        \/ Finish(t)
        \/ ThreadReturn(t)

SpecThreads == InitThreads /\ [][NextThreads]_vars

(***************************************************************************)
(* What a call leaves behind: next to its result, the caller's input       *)
(* tensor, the codebook and the mapping's cache as they are when the call  *)
(* returns.  No call writes through a tensor it was given: the conversions *)
(* index the mapping tensor with img_batch and slice it, encode repeats or *)
(* reshapes pixel_values and convolves, decode looks the grid up in the    *)
(* embedding; every in-place product (hidden_states *= ...) is applied to  *)
(* the fresh output of a norm or a convolution.                            *)
(***************************************************************************)

\* convert_img2bpe writing the ids it looked up into img_batch itself.
EffectInPlace(call, cfg, w, vm, c, input) ==
    CASE call = "convert_img2bpe" ->
            [ret |-> convert_img2bpe(vm, c, input)[1],
             input |-> IF IndexSelect(MappingTensor(Img2BpeDict(vm, image_tokens_str(vm, c)[1].value)), input).raised = "none"
                       THEN IndexSelect(MappingTensor(Img2BpeDict(vm, image_tokens_str(vm, c)[1].value)), input).value
                       ELSE input,
             weight |-> w,
             cached |-> convert_img2bpe(vm, c, input)[2]]
      [] call = "convert_bpe2img" ->
            [ret |-> convert_bpe2img(vm, c, input)[1], input |-> input, weight |-> w,
             cached |-> convert_bpe2img(vm, c, input)[2]]
      [] call = "encode" ->
            [ret |-> encode(cfg, input.pixel_values, input.image_sizes),
             input |-> input, weight |-> w, cached |-> c]
      [] OTHER ->
            [ret |-> decode(cfg, input), input |-> input, weight |-> w, cached |-> c]

Effect(call, cfg, w, vm, c, input) ==
    CASE call = "convert_img2bpe" ->
            [ret |-> convert_img2bpe(vm, c, input)[1], input |-> input, weight |-> w,
             cached |-> convert_img2bpe(vm, c, input)[2]]
      [] call = "convert_bpe2img" ->
            [ret |-> convert_bpe2img(vm, c, input)[1], input |-> input, weight |-> w,
             cached |-> convert_bpe2img(vm, c, input)[2]]
      [] call = "encode" ->
            [ret |-> encode(cfg, input.pixel_values, input.image_sizes),
             input |-> input, weight |-> w, cached |-> c]
      [] OTHER ->
            [ret |-> decode(cfg, input), input |-> input, weight |-> w, cached |-> c]

FrameConfigs ==
    {cfg \in Configs : /\ cfg.out_channels = 3
                       /\ cfg.temporal_downsample_factor = cfg.num_resolutions
                       /\ cfg.num_resolutions \in {2, 4}}

FrameCodebooks == {w \in Codebooks(1) : Len(w) = 1 /\ w[1][1] >= 0}

\* One-row tensors for the conversions, single images and clips for
\* encode, image grids for decode.
FrameInputs(call, cfg) ==
    CASE call = "convert_img2bpe" -> {t \in CodeGrids : t.rows = 1 /\ t.cols <= 2}
      [] call = "convert_bpe2img" -> {t \in IdTensors : t.rows = 1 /\ t.cols <= 2}
      [] call = "encode" ->
            {input \in ImageInputs(cfg) \cup ClipInputs(cfg) :
                /\ input.pixel_values[1] = 1
                /\ input.image_sizes[1] = <<8, 8>>}
      [] OTHER -> {codes \in CodeGridInputs(cfg) : Len(codes.shape) = 3}

InitFrame ==
    /\ config \in FrameConfigs
    /\ weight \in {Some(w) : w \in FrameCodebooks}
    /\ vocab_map \in ThreadTables
    /\ cached = NotCached
    /\ op = "idle"
    /\ arg = None
    /\ ret = Ok(None)
    /\ origin = None

\* One call; origin keeps the input as the caller passed it, arg is the
\* caller's tensor when the call has returned.
FrameCall(call) ==
    /\ op = "idle"
    /\ \E input \in FrameInputs(call, config) :
        LET eff == Effect(call, config, weight, vocab_map, cached, input)
        IN  /\ op' = call
            /\ origin' = Some(input)
            /\ arg' = eff.input
            /\ ret' = eff.ret
            /\ weight' = eff.weight
            /\ cached' = eff.cached
            /\ UNCHANGED <<config, vocab_map>>

FrameEncode == FrameCall("encode")

FrameDecode == FrameCall("decode")

FrameConvertImg2Bpe == FrameCall("convert_img2bpe")

FrameConvertBpe2Img == FrameCall("convert_bpe2img")

NextFrame ==
    FrameEncode \/ FrameDecode \/ FrameConvertImg2Bpe \/ FrameConvertBpe2Img \/ Return

SpecFrame == InitFrame /\ [][NextFrame]_vars

(***************************************************************************)
(* The temporal convolutions on their own, on (B, C, T, H, W) tensors.     *)
(***************************************************************************)

ConvShapes ==
    {<<B, 4, T, H, W>> : B \in BatchSizes, T \in 1..MaxFrames, H \in Sides, W \in Sides}

InitConv ==
    /\ config = None
    /\ weight = None
    /\ vocab_map = BaseTable
    /\ cached = NotCached
    /\ op = "idle"
    /\ arg = None
    /\ ret = Ok(None)
    /\ origin = None

\* Emu3VQVAEConv3d of kernel (3, 3, 3), stride (1, 1, 1)
TemporalConvForward ==
    /\ op = "idle"
    /\ \E shape \in ConvShapes :
        /\ op' = "temporal_conv"
        /\ arg' = shape
        /\ ret' = Conv3dFrames(shape, shape[2], <<3, 3, 3>>, <<1, 1, 1>>)
        /\ origin' = None
        /\ UNCHANGED <<config, weight, vocab_map, cached>>

\* Emu3VQVAETemporalDownsample.forward
TemporalDownsampleForward ==
    /\ op = "idle"
    /\ \E shape \in ConvShapes :
        /\ op' = "temporal_downsample"
        /\ arg' = shape
        /\ ret' = Conv3dFrames(shape, shape[2], <<4, 3, 3>>, <<2, 1, 1>>)
        /\ origin' = None
        /\ UNCHANGED <<config, weight, vocab_map, cached>>

NextConv == TemporalConvForward \/ TemporalDownsampleForward \/ Return

SpecConv == InitConv /\ [][NextConv]_vars

(***************************************************************************)
(* Emu3Model.decode_image_tokens.  image_tokens is a (B, N) tensor of ids; *)
(* the 3-D tensor of sequences is the list of its (height, width + 1)      *)
(* grids.                                                                  *)
(***************************************************************************)

\* image_tokens[:, :-2], one trailing token kept.
DropTrailingTwo(t) ==
    Tensor2(t.rows, Max(t.cols - 2, 0), LAMBDA r, c : t.at[r][c])

\* image_tokens[:, :-3]
DropTrailing(t) ==
    Tensor2(t.rows, Max(t.cols - 3, 0), LAMBDA r, c : t.at[r][c])

\* .view(-1, height, width + 1) of the slice t.  The view needs a number
\* of elements that height * (width + 1) divides; the slice of a batch of
\* several rows is not contiguous, and views only when every row is
\* exactly one grid.
View(t, height, width) ==
    IF height * (width + 1) <= 0 THEN Raise("RuntimeError")
    ELSE IF (t.rows * t.cols) % (height * (width + 1)) # 0 THEN Raise("RuntimeError")
    ELSE IF t.rows > 1 /\ t.cols > 0 /\ t.cols # height * (width + 1)
    THEN Raise("RuntimeError")
    ELSE Ok([g \in 1..((t.rows * t.cols) \div (height * (width + 1))) |->
                Tensor2(height, width + 1,
                        LAMBDA r, c : Flatten2(t)[(g - 1) * height * (width + 1)
                                                  + (r - 1) * (width + 1) + c])])

\* convert_bpe2img on the 3-D tensor, given the read of the mapping
\* tensor: the last column of every grid is dropped, every other id is
\* looked up.
ConvertSequencesFrom(got, sequences) ==
    IF got[1].raised # "none" THEN got
    ELSE IF \E g \in 1..Len(sequences) :
                IndexSelect(got[1].value, DropLastColumn(sequences[g])).raised # "none"
    THEN <<Raise("IndexError"), got[2]>>
    ELSE <<Ok([g \in 1..Len(sequences) |->
                IndexSelect(got[1].value, DropLastColumn(sequences[g])).value]), got[2]>>

\* The (B, h, w) tensor of grids as decode takes it.
CodesOfGrids(grids, height, width) ==
    [shape |-> <<Len(grids), height, width>>,
     entries |-> UNION {Entries(grids[g]) : g \in 1..Len(grids)}]

\* The rest of decode_image_tokens, given the converted grids: the result,
\* with the tensor self.vqmodel.decode was called on, if it was called.
DecodeGridsFrom(cfg, got, height, width) ==
    IF got[1].raised # "none"
    THEN <<[raised |-> got[1].raised, value |-> None, decoder_input |-> None], got[2]>>
    ELSE <<[raised |-> decode(cfg, CodesOfGrids(got[1].value, height, width)).raised,
            value |-> decode(cfg, CodesOfGrids(got[1].value, height, width)).value,
            decoder_input |-> Some(got[1].value)], got[2]>>

\* decode_image_tokens: <<result, cache after the call>>
decode_image_tokens(cfg, vm, c, image_tokens, height, width) ==
    IF View(DropTrailing(image_tokens), height, width).raised # "none"
    THEN <<[raised |-> "RuntimeError", value |-> None, decoder_input |-> None], c>>
    ELSE DecodeGridsFrom(cfg,
            ConvertSequencesFrom(bpe2img_mapping_tensor(vm, c),
                                 View(DropTrailing(image_tokens), height, width).value),
            height, width)

\* The three tokens that follow the rows of a generated image.
TrailingTokens == {<<1, 1, 1>>, <<6, 0, 4>>}

\* Token tensors of one repeated id, and heights and widths to read them by.
TokenTensors ==
    {Tensor2(B, N, LAMBDA r, c : v) : B \in BatchSizes, N \in 0..7, v \in {2, 6}}

GridSizes == 0..2

InitGenerate ==
    /\ config \in FrameConfigs
    /\ weight = None
    /\ vocab_map \in ModelTables
    /\ cached = NotCached
    /\ op = "idle"
    /\ arg = None
    /\ ret = Ok(None)
    /\ origin = None

DecodeImageTokens ==
    /\ op = "idle"
    /\ \E image_tokens \in TokenTensors, height \in GridSizes, width \in GridSizes :
        LET got == decode_image_tokens(config, vocab_map, cached, image_tokens,
                                       height, width)
        IN  /\ op' = "decode_image_tokens"
            /\ arg' = [image_tokens |-> image_tokens, height |-> height, width |-> width]
            /\ ret' = got[1]
            /\ cached' = got[2]
            /\ origin' = None
            /\ UNCHANGED <<config, weight, vocab_map>>

\* decode_image_tokens on the ids convert_img2bpe has just returned for a
\* grid, flattened and followed by three tokens, with the grid's height
\* and width; origin keeps the grid.
DecodeGenerated ==
    /\ op = "convert_img2bpe"
    /\ ret.raised = "none"
    /\ \E trailing \in TrailingTokens :
        LET ids == Flatten2(ret.value) \o trailing
            image_tokens == Tensor2(1, Len(ids), LAMBDA r, c : ids[c])
            got == decode_image_tokens(config, vocab_map, cached, image_tokens,
                                       arg.rows, arg.cols)
        IN  /\ op' = "decode_image_tokens"
            /\ arg' = [image_tokens |-> image_tokens, height |-> arg.rows,
                       width |-> arg.cols]
            /\ ret' = got[1]
            /\ cached' = got[2]
            /\ origin' = Some(arg)
            /\ UNCHANGED <<config, weight, vocab_map>>

NextGenerate == ConvertImg2Bpe \/ DecodeGenerated \/ DecodeImageTokens \/ Return

SpecGenerate == InitGenerate /\ [][NextGenerate]_vars

(***************************************************************************)
(* Emu3Model.forward and Emu3ForConditionalGeneration.forward.  An         *)
(* argument that is absent is None.  input_ids is a (B, L) tensor of ids,  *)
(* inputs_embeds a (B, L) tensor of embedding rows, [row |-> id] the row   *)
(* of the embedding table that id selects.  The text model is outside the  *)
(* source: its hidden states are known by the embeddings it was run on.    *)
(***************************************************************************)

\* self.get_input_embeddings()(input_ids)
EmbedTensor(t) == Tensor2(t.rows, t.cols, LAMBDA r, c : [row |-> t.at[r][c]])

\* torch.cat(image_embeds, dim=0)
RECURSIVE CatAll(_, _)
CatAll(list, n) == IF n = 0 THEN <<>> ELSE CatAll(list, n - 1) \o list[n]

\* special_image_mask: the places, row after row, that hold the
\* placeholder: by id when input_ids is given, else by the embedding row.
SpecialImageMask(vm, input_ids, inputs_embeds) ==
    IF input_ids.some
    THEN [k \in 1..Len(Flatten2(input_ids.v)) |->
            Flatten2(input_ids.v)[k] = image_token_id(vm).v]
    ELSE [k \in 1..Len(Flatten2(inputs_embeds)) |->
            Flatten2(inputs_embeds)[k] = [row |-> image_token_id(vm).v]]

\* The number of places the mask selects among the first k.
RECURSIVE CountMasked(_, _)
CountMasked(mask, k) ==
    IF k = 0 THEN 0 ELSE CountMasked(mask, k - 1) + (IF mask[k] THEN 1 ELSE 0)

\* masked_scatter that fills the selected places from the end of source.
MaskedScatterReversed(t, mask, source) ==
    IF CountMasked(mask, Len(mask)) > Len(source) THEN Raise("RuntimeError")
    ELSE Ok(Tensor2(t.rows, t.cols,
                LAMBDA r, c :
                    IF mask[(r - 1) * t.cols + c]
                    THEN source[Len(source) + 1 - CountMasked(mask, (r - 1) * t.cols + c)]
                    ELSE t.at[r][c]))

\* inputs_embeds.masked_scatter(special_image_mask, image_embeds): the
\* selected places, row after row, take the rows of source in their order;
\* a source with fewer rows than places is a RuntimeError.
MaskedScatter(t, mask, source) ==
    IF CountMasked(mask, Len(mask)) > Len(source) THEN Raise("RuntimeError")
    ELSE Ok(Tensor2(t.rows, t.cols,
                LAMBDA r, c :
                    IF mask[(r - 1) * t.cols + c]
                    THEN source[CountMasked(mask, (r - 1) * t.cols + c)]
                    ELSE t.at[r][c]))

\* A check that refuses only a call with neither input_ids nor
\* inputs_embeds.
BadArgumentsBothAbsent(input_ids, inputs_embeds) ==
    ~input_ids.some /\ ~inputs_embeds.some

\* The argument check of Emu3Model.forward:
\* (input_ids is None) ^ (inputs_embeds is not None)
BadArguments(input_ids, inputs_embeds) ==
    (~input_ids.some) # inputs_embeds.some

\* The merge of Emu3Model.forward, given what get_image_features returned:
\* <<the embeddings the text model is run on, or an error; the cache>>.
MergeFrom(vm, input_ids, embeds, got) ==
    IF got[1].raised # "none" THEN got
    ELSE IF ~image_token_id(vm).some THEN <<Raise("AttributeError"), got[2]>>
    ELSE <<MaskedScatter(embeds, SpecialImageMask(vm, input_ids, embeds),
                         CatAll(got[1].value, Len(got[1].value))), got[2]>>

\* The embeddings Emu3Model.forward starts from.
InputsEmbeds(input_ids, inputs_embeds) ==
    IF inputs_embeds.some THEN inputs_embeds.v ELSE EmbedTensor(input_ids.v)

\* Emu3Model.forward: <<result, cache after the call>>; the result is the
\* output of the text model on the embeddings.  a holds input_ids,
\* inputs_embeds, pixel_values, image_sizes, and the codes the quantizer
\* chooses for pixel_values.
model_forward(cfg, vm, c, a) ==
    IF BadArguments(a.input_ids, a.inputs_embeds) THEN <<Raise("ValueError"), c>>
    ELSE IF ~a.pixel_values.some
    THEN <<Ok([hidden_states_of |-> InputsEmbeds(a.input_ids, a.inputs_embeds)]), c>>
    ELSE LET merged == MergeFrom(vm, a.input_ids,
                           InputsEmbeds(a.input_ids, a.inputs_embeds),
                           get_image_features(cfg, vm, c,
                               [pixel_values |-> a.pixel_values.v,
                                image_sizes |-> a.image_sizes.v], a.codes))
         IN  IF merged[1].raised # "none" THEN merged
             ELSE <<Ok([hidden_states_of |-> merged[1].value]), merged[2]>>

\* The arguments Emu3ForConditionalGeneration.forward hands to self.model:
\* input_ids, attention_mask, position_ids, past_key_values, inputs_embeds,
\* use_cache, cache_position and **kwargs; pixel_values and image_sizes are
\* named parameters of forward, not in kwargs, and are not among them.
ModelArguments(a) ==
    [a EXCEPT !.pixel_values = None, !.image_sizes = None]

\* Emu3ForConditionalGeneration.forward: the logits are computed from
\* outputs[0] of self.model.
generation_forward(cfg, vm, c, a) ==
    LET outputs == model_forward(cfg, vm, c, ModelArguments(a))
    IN  IF outputs[1].raised # "none" THEN outputs
        ELSE <<Ok([logits_of |-> outputs[1].value]), outputs[2]>>

(***************************************************************************)
(* The inputs of the two forward calls.                                    *)
(***************************************************************************)

\* The most ids an input_ids tensor holds.
MaxTokens == 4

ForwardConfigs ==
    {cfg \in FrameConfigs : cfg.num_resolutions = 2}

\* Ids of a prompt: the placeholder and a text token.
PromptIds(vm) == {image_token_id(vm).v, vm[<<"t", "e", "x", "t">>]}

IdRows(vm) ==
    UNION {Tensors(shape, PromptIds(vm)) :
            shape \in {sh \in (1..2) \X (1..MaxTokens) : sh[1] * sh[2] <= MaxTokens}}

\* Image batches of one or two samples on a canvas of one or two cells,
\* with the codes of the canvas, and a tensor of rank 3.
ForwardImages(cfg) ==
    UNION {{[pixel_values |-> Some(input.pixel_values),
             image_sizes |-> Some(input.image_sizes), codes |-> codes] :
                codes \in CodesOf(cfg, input)} :
            input \in {[pixel_values |-> <<bw[1], cfg.in_channels, 2, bw[2]>>,
                        image_sizes |-> [i \in 1..bw[1] |-> <<2, bw[2]>>]] :
                            bw \in {<<1, 2>>, <<1, 4>>, <<2, 2>>}}}
    \cup {[pixel_values |-> Some(<<cfg.in_channels, 2, 2>>),
           image_sizes |-> Some(<<<<2, 2>>>>), codes |-> <<>>]}

NoImages == [pixel_values |-> None, image_sizes |-> None, codes |-> <<>>]

\* The arguments of a forward call: input_ids, inputs_embeds, both or
\* neither, with or without images.
ForwardArguments(cfg, vm) ==
    {[input_ids |-> ids, inputs_embeds |-> embeds, pixel_values |-> im.pixel_values,
      image_sizes |-> im.image_sizes, codes |-> im.codes] :
        ids \in {None} \cup {Some(t) : t \in IdRows(vm)},
        embeds \in {None} \cup {Some(EmbedTensor(t)) : t \in {u \in IdRows(vm) : u.rows = 1 /\ u.cols <= 2}},
        im \in {NoImages} \cup ForwardImages(cfg)}

InitForward ==
    /\ config \in ForwardConfigs
    /\ weight = None
    /\ vocab_map \in ModelTables
    /\ cached = NotCached
    /\ op = "idle"
    /\ arg = None
    /\ ret = Ok(None)
    /\ origin = None

\* Emu3Model.forward
ModelForward ==
    /\ op = "idle"
    /\ \E a \in ForwardArguments(config, vocab_map) :
        LET got == model_forward(config, vocab_map, cached, a)
        IN  /\ op' = "model_forward"
            /\ arg' = a
            /\ ret' = got[1]
            /\ cached' = got[2]
            /\ origin' = None
            /\ UNCHANGED <<config, weight, vocab_map>>

\* Emu3ForConditionalGeneration.forward
GenerationForward ==
    /\ op = "idle"
    /\ \E a \in ForwardArguments(config, vocab_map) :
        LET got == generation_forward(config, vocab_map, cached, a)
        IN  /\ op' = "generation_forward"
            /\ arg' = a
            /\ ret' = got[1]
            /\ cached' = got[2]
            /\ origin' = None
            /\ UNCHANGED <<config, weight, vocab_map>>

NextForward == ModelForward \/ GenerationForward \/ Return

SpecForward == InitForward /\ [][NextForward]_vars

(***************************************************************************)
(* A generation run of Emu3ForConditionalGeneration.  The loop and the     *)
(* base prepare_inputs_for_generation belong to GenerationMixin, outside   *)
(* the source: the loop calls prepare_inputs_for_generation and forward    *)
(* once per step, the first step on the whole prompt with cache_position   *)
(* 0 .. L - 1, every later step on the token just chosen, with             *)
(* cache_position the place of that token.  origin holds the run: its      *)
(* steps so far, how often the model inputs held pixel_values, and how     *)
(* often the images were tokenized.                                        *)
(***************************************************************************)

\* The most tokens a run generates.
MaxNewTokens == 2

\* GenerationMixin.prepare_inputs_for_generation: the ids at
\* cache_position, and every other keyword argument as it was passed.
GenerationMixinPrepare(a) ==
    [a EXCEPT !.input_ids =
        Some(Tensor2(a.input_ids.v.rows, Len(a.cache_position),
                     LAMBDA r, c : a.input_ids.v.at[r][a.cache_position[c] + 1]))]

\* The test of the first cache position turned round.
PrepareDropsAtZero(a) ==
    IF a.cache_position[1] = 0
    THEN [GenerationMixinPrepare(a) EXCEPT !.pixel_values = None]
    ELSE GenerationMixinPrepare(a)

\* Emu3ForConditionalGeneration.prepare_inputs_for_generation
prepare_inputs_for_generation(a) ==
    IF a.cache_position[1] # 0
    THEN [GenerationMixinPrepare(a) EXCEPT !.pixel_values = None]
    ELSE GenerationMixinPrepare(a)

\* How often a forward call on these model inputs tokenizes images: once
\* when Emu3Model.forward gets pixel_values and accepts its arguments.
Tokenizations(model_inputs) ==
    IF /\ ModelArguments(model_inputs).pixel_values.some
       /\ ~BadArguments(model_inputs.input_ids, model_inputs.inputs_embeds)
    THEN 1 ELSE 0

\* Prompts of one row, with one image or none.
Prompts(cfg, vm) ==
    {[input_ids |-> Some(t), inputs_embeds |-> None, pixel_values |-> im.pixel_values,
      image_sizes |-> im.image_sizes, codes |-> im.codes,
      cache_position |-> [i \in 1..t.cols |-> i - 1]] :
        t \in {u \in IdRows(vm) : u.rows = 1},
        im \in {NoImages} \cup {x \in ForwardImages(cfg) : Len(x.pixel_values.v) = 4
                                                            /\ x.pixel_values.v[1] = 1}}

InitGeneration ==
    /\ config \in ForwardConfigs
    /\ weight = None
    /\ vocab_map \in ModelTables
    /\ cached = NotCached
    /\ op = "idle"
    /\ arg = None
    /\ ret = Ok(None)
    /\ origin = None

\* generate(**inputs): the run starts on the prompt.
Generate ==
    /\ op = "idle"
    /\ \E a \in Prompts(config, vocab_map) :
        /\ op' = "generate"
        /\ arg' = a
        /\ ret' = Ok(None)
        /\ origin' = Some([steps |-> 0, handed |-> 0, tokenized |-> 0])
        /\ UNCHANGED <<config, weight, vocab_map, cached>>

\* A step's call of prepare_inputs_for_generation on the run's arguments.
PrepareInputs ==
    /\ op = "generate"
    /\ origin.v.steps <= MaxNewTokens
    /\ op' = "prepare_inputs_for_generation"
    /\ ret' = Ok(prepare_inputs_for_generation(arg))
    /\ UNCHANGED <<config, weight, vocab_map, cached, arg, origin>>

\* The step's forward call on the model inputs, and the update of the
\* run: the chosen token joins input_ids, cache_position moves to it.
StepForward ==
    /\ op = "prepare_inputs_for_generation"
    /\ \E next_token \in PromptIds(vocab_map) :
        LET got == generation_forward(config, vocab_map, cached, ret.value)
            ids == arg.input_ids.v
        IN  /\ cached' = got[2]
            /\ ret' = got[1]
            /\ origin' = Some([steps |-> origin.v.steps + 1,
                               handed |-> origin.v.handed
                                    + (IF ret.value.pixel_values.some THEN 1 ELSE 0),
                               tokenized |-> origin.v.tokenized + Tokenizations(ret.value)])
            /\ arg' = [arg EXCEPT
                        !.input_ids = Some(Tensor2(ids.rows, ids.cols + 1,
                            LAMBDA r, c : IF c <= ids.cols THEN ids.at[r][c]
                                          ELSE next_token)),
                        !.cache_position = <<ids.cols>>]
            /\ op' = "generate"
    /\ UNCHANGED <<config, weight, vocab_map>>

NextGeneration == Generate \/ PrepareInputs \/ StepForward \/ Return

SpecGeneration == InitGeneration /\ [][NextGeneration]_vars

(***************************************************************************)
(* What the claims about the VQ-VAE speak of.                              *)
(***************************************************************************)

IsPowerOfTwo(n) == Pow(2, Log2Floor(n)) = n

\* The canvas of a pixel shape, (B, C, H, W) or (B, T, C, H, W).
Height(pixel_values) == pixel_values[Len(pixel_values) - 1]

Width(pixel_values) == pixel_values[Len(pixel_values)]

\* Height and width divisible by the spatial factor, the frames of a clip by
\* the temporal factor, and every declared size the full canvas.
FullCanvasInput(cfg, input) ==
    /\ Height(input.pixel_values) % vision_spatial_factor(cfg) = 0
    /\ Width(input.pixel_values) % vision_spatial_factor(cfg) = 0
    /\ Len(input.pixel_values) = 5
       => input.pixel_values[2] % cfg.temporal_downsample_factor = 0
    /\ Len(input.image_sizes) = input.pixel_values[1]
    /\ \A i \in 1..Len(input.image_sizes) :
         input.image_sizes[i] = <<Height(input.pixel_values), Width(input.pixel_values)>>

\* C3: for a pixel tensor whose height and width are divisible by the
\* spatial factor and whose frames by temporal_downsample_factor, with
\* image_sizes the full canvas, encode returns and decoding its grids gives
\* a tensor of the shape of the input: (B, C, H, W) or (B, T, C, H, W).
\* Stated for the configurations whose temporal_downsample_factor is a
\* power of two and whose out_channels equals in_channels.
C3_RoundTripShape ==
    (IsPowerOfTwo(config.temporal_downsample_factor)
     /\ config.out_channels = config.in_channels)
    => /\ (op = "encode" /\ FullCanvasInput(config, arg)) => ret.raised = "none"
       /\ (op = "decode" /\ origin.some /\ FullCanvasInput(config, origin.v))
          => (ret.raised = "none" /\ ret.value = origin.v.pixel_values)

\* The declared sizes of a batch: one per sample, none larger than the canvas.
SizesFitCanvas(input) ==
    /\ Len(input.image_sizes) = input.pixel_values[1]
    /\ \A i \in 1..Len(input.image_sizes) :
         /\ input.image_sizes[i][1] <= Height(input.pixel_values)
         /\ input.image_sizes[i][2] <= Width(input.pixel_values)

\* floor(a / b) for a >= 0 and b > 0, by its definition: the q with
\* q * b <= a < (q + 1) * b.
Floor(a, b) == CHOOSE q \in 0..a : q * b <= a /\ a < (q + 1) * b

\* C4: for an image batch, encode returns one grid per sample, and the grid
\* of a sample of declared size (h, w) has floor(h / f) rows and
\* floor(w / f) columns, f the spatial factor; nothing is rounded up.
C4_ImageGridIsFloorOfSize ==
    (op = "encode" /\ Len(arg.pixel_values) = 4 /\ SizesFitCanvas(arg)
     /\ ret.raised = "none")
    => /\ Len(ret.value) = arg.pixel_values[1]
       /\ \A i \in 1..Len(ret.value) :
            ret.value[i].shape =
                <<Floor(arg.image_sizes[i][1], vision_spatial_factor(config)),
                  Floor(arg.image_sizes[i][2], vision_spatial_factor(config))>>

\* encode has returned a 0 x 0 grid for an image of declared size 1 x 1
\* on a padded canvas, under a spatial factor of 8.
C4_Witness ==
    /\ op = "encode"
    /\ Len(arg.pixel_values) = 4
    /\ vision_spatial_factor(config) = 8
    /\ arg.pixel_values[1] = 2
    /\ arg.image_sizes[1] = <<1, 1>>
    /\ ret.raised = "none"
    /\ ret.value[1].shape = <<0, 0>>
    /\ ret.value[2].shape = <<1, 1>>

\* The shape decode is to return for a grid (B, h, w) or (B, t, h, w).
DecodedShape(cfg, grid) ==
    IF Len(grid) = 3
    THEN <<grid[1], cfg.out_channels,
           grid[2] * Pow(2, cfg.num_resolutions - 1),
           grid[3] * Pow(2, cfg.num_resolutions - 1)>>
    ELSE <<grid[1], grid[2] * cfg.temporal_downsample_factor, cfg.out_channels,
           grid[3] * Pow(2, cfg.num_resolutions - 1),
           grid[4] * Pow(2, cfg.num_resolutions - 1)>>

EntriesInCodebook(cfg, codes) ==
    \A i \in codes.entries : 0 <= i /\ i < cfg.codebook_size

\* A grid that holds at least one code.
NonEmpty(shape) == \A i \in 1..Len(shape) : shape[i] >= 1

\* C8 as stated: decode of a non-empty grid (B, h, w) returns (B, out_channels, h*f,
\* w*f) and of a grid (B, t, h, w) returns (B, t * temporal_downsample_factor,
\* out_channels, h*f, w*f), for every configured temporal_downsample_factor
\* and number of resolution stages.
C8_DecodeShapeAnyFactor ==
    (op = "decode" /\ NonEmpty(arg.shape) /\ EntriesInCodebook(config, arg))
    => (ret.raised = "none" /\ ret.value = DecodedShape(config, arg.shape))

\* C8 amended: the same, for every temporal_downsample_factor that is a
\* power of two and every number of resolution stages.
C8_DecodeShape ==
    (op = "decode" /\ NonEmpty(arg.shape) /\ EntriesInCodebook(config, arg)
     /\ IsPowerOfTwo(config.temporal_downsample_factor))
    => (ret.raised = "none" /\ ret.value = DecodedShape(config, arg.shape))

\* decode has returned for a clip grid of two frames, under a temporal factor
\* of 4 and three resolution stages.
C8_Witness ==
    /\ op = "decode"
    /\ origin = None
    /\ config.temporal_downsample_factor = 4
    /\ config.num_resolutions = 3
    /\ arg.shape = <<2, 2, 1, 2>>
    /\ ret.raised = "none"
    /\ ret.value = <<2, 8, config.out_channels, 4, 8>>

\* C9 as stated: for T frames of H x W, T divisible by
\* temporal_downsample_factor (and H, W by the spatial factor), the encoder
\* returns T / temporal_downsample_factor frames of (H / 2^(S-1)) x
\* (W / 2^(S-1)), for every configured temporal_downsample_factor.
C9_EncoderShapeAnyFactor ==
    (op = "encoder"
     /\ arg[2] % config.temporal_downsample_factor = 0
     /\ arg[4] % Pow(2, config.num_resolutions - 1) = 0
     /\ arg[5] % Pow(2, config.num_resolutions - 1) = 0)
    => /\ ret.raised = "none"
       /\ ret.value = <<arg[1], arg[2] \div config.temporal_downsample_factor,
                        config.latent_channels,
                        arg[4] \div Pow(2, config.num_resolutions - 1),
                        arg[5] \div Pow(2, config.num_resolutions - 1)>>

\* C9 amended: the same, for every temporal_downsample_factor that is a
\* power of two.
C9_EncoderShape ==
    (op = "encoder"
     /\ IsPowerOfTwo(config.temporal_downsample_factor)
     /\ arg[2] % config.temporal_downsample_factor = 0
     /\ arg[4] % Pow(2, config.num_resolutions - 1) = 0
     /\ arg[5] % Pow(2, config.num_resolutions - 1) = 0)
    => /\ ret.raised = "none"
       /\ ret.value = <<arg[1], arg[2] \div config.temporal_downsample_factor,
                        config.latent_channels,
                        arg[4] \div Pow(2, config.num_resolutions - 1),
                        arg[5] \div Pow(2, config.num_resolutions - 1)>>

\* The encoder has returned two frames of 1 x 2 for four frames of 4 x 8,
\* under a temporal factor of 2 and three resolution stages.
C9_Witness ==
    /\ op = "encoder"
    /\ config.temporal_downsample_factor = 2
    /\ config.num_resolutions = 3
    /\ arg = <<1, 4, 3, 4, 8>>
    /\ ret.raised = "none"
    /\ ret.value = <<1, 2, 4, 1, 2>>

(***************************************************************************)
(* What the claims about the vocabulary mapping speak of.                  *)
(***************************************************************************)

VisualNames(vm) == {name \in DOMAIN vm : startswith(name, VisualPrefix)}

\* The code value a visual token's name encodes.
CodeOf(name) == PyInt(PySlice(name, -8, -2))

DefinedCodes(vm) == {CodeOf(name) : name \in VisualNames(vm)}

SharedVisualIds(vm) == {vm[name] : name \in VisualNames(vm)}

NamesEncodeDistinctCodes(vm) ==
    \A n1, n2 \in VisualNames(vm) : n1 # n2 => CodeOf(n1) # CodeOf(n2)

VisualIdsDistinct(vm) ==
    \A n1, n2 \in VisualNames(vm) : n1 # n2 => vm[n1] # vm[n2]

\* C1 as stated: for a table whose visual-token names encode distinct code
\* values, convert_bpe2img(convert_img2bpe(grid)) is the grid, for every grid
\* of defined visual codes.
C1_RoundTripAnyTable ==
    (/\ op = "convert_bpe2img"
     /\ origin.some
     /\ NamesEncodeDistinctCodes(vocab_map)
     /\ Entries(origin.v) \subseteq DefinedCodes(vocab_map))
    => (ret.raised = "none" /\ ret.value = origin.v)

\* C1 amended: for a table whose visual-token names encode distinct code
\* values and whose visual tokens have pairwise distinct shared ids,
\* convert_bpe2img(convert_img2bpe(grid)) is the grid entry for entry, for
\* every grid of R >= 1 rows and C >= 0 columns of defined visual codes.
C1_RoundTrip ==
    (/\ op = "convert_bpe2img"
     /\ origin.some
     /\ NamesEncodeDistinctCodes(vocab_map)
     /\ VisualIdsDistinct(vocab_map)
     /\ Entries(origin.v) \subseteq DefinedCodes(vocab_map))
    => (ret.raised = "none" /\ ret.value = origin.v)

\* A grid of one row and two different defined codes has made the round trip
\* through a table of distinct codes and distinct ids.
C1_Witness ==
    /\ op = "convert_bpe2img"
    /\ origin.some
    /\ NamesEncodeDistinctCodes(vocab_map)
    /\ VisualIdsDistinct(vocab_map)
    /\ origin.v.rows = 1
    /\ origin.v.cols = 2
    /\ Entries(origin.v) \subseteq DefinedCodes(vocab_map)
    /\ origin.v.at[1][1] # origin.v.at[1][2]
    /\ ret.raised = "none"

\* C2: convert_img2bpe of an (R, C) grid of defined codes returns an
\* (R, C + 1) tensor: entry (r, c), c <= C, is the shared id of a visual
\* token whose name encodes grid[r][c], and the last entry of every row is
\* the end-of-line marker id.
C2_Img2BpeLayout ==
    (op = "convert_img2bpe" /\ Entries(arg) \subseteq DefinedCodes(vocab_map))
    => /\ ret.raised = "none"
       /\ ret.value.rows = arg.rows
       /\ ret.value.cols = arg.cols + 1
       /\ \A r \in 1..arg.rows :
            /\ \A c \in 1..arg.cols :
                 \E name \in VisualNames(vocab_map) :
                    /\ CodeOf(name) = arg.at[r][c]
                    /\ vocab_map[name] = ret.value.at[r][c]
            /\ ret.value.at[r][arg.cols + 1] = vocab_map[EolName]

\* convert_img2bpe has returned for a grid of two rows and one column of
\* defined codes that map to two different ids.
C2_Witness ==
    /\ op = "convert_img2bpe"
    /\ arg.rows = 2
    /\ arg.cols = 1
    /\ Entries(arg) \subseteq DefinedCodes(vocab_map)
    /\ ret.raised = "none"
    /\ ret.value.at[1][1] # ret.value.at[2][1]

\* C10 as stated: convert_img2bpe of a grid holding an index that is no
\* defined visual code, and convert_bpe2img of a tensor holding (before its
\* last column) an id that is no visual token's shared id, raise an error.
C10_UndefinedIndexRaises ==
    /\ (op = "convert_img2bpe" /\ ~(Entries(arg) \subseteq DefinedCodes(vocab_map)))
       => ret.raised # "none"
    /\ (op = "convert_bpe2img"
        /\ ~(Entries(DropLastColumn(arg)) \subseteq SharedVisualIds(vocab_map)))
       => ret.raised # "none"
(***************************************************************************)
(* What the claims about the quantizer speak of.                           *)
(***************************************************************************)

\* |z - e|^2, computed directly and exactly.
SquaredDistance(z, e) ==
    LET RECURSIVE Sum(_)
        Sum(n) == IF n = 0 THEN 0
                  ELSE Sum(n - 1) + (z[n] - e[n]) * (z[n] - e[n])
    IN  Sum(Len(z))

\* The codeword chosen at a place is nearest to the query at that place.
ChosenIsNearest(pos) ==
    \A k \in 1..Len(weight.v) :
        SquaredDistance(arg.hidden_state.at[pos], weight.v[ret.value.at[pos] + 1])
            <= SquaredDistance(arg.hidden_state.at[pos], weight.v[k])

\* The expanded form, as float32 evaluates it, is the squared distance of
\* the query at a place to every codeword.
ExpandedFormExact(pos) ==
    \A k \in 1..Len(weight.v) :
        ExpandedDistance(arg.hidden_state.at[pos], weight.v[k], arg.fused)
            = SquaredDistance(arg.hidden_state.at[pos], weight.v[k])

\* C6: every entry of the grid the quantizer returns is an integer in
\* [0, N), N the number of codebook entries, and the grid has the shape
\* (batch, time, height, width) of the input without its channel axis.
C6_IndicesInCodebook ==
    op = "quantize"
    => /\ ret.raised = "none"
       /\ ret.value.shape = <<arg.hidden_state.shape[1], arg.hidden_state.shape[2],
                              arg.hidden_state.shape[4], arg.hidden_state.shape[5]>>
       /\ DOMAIN ret.value.at = Positions(arg.hidden_state.shape)
       /\ \A pos \in DOMAIN ret.value.at :
            ret.value.at[pos] \in 0..(Len(weight.v) - 1)

\* The quantizer has returned a grid of two places that holds the last code
\* of a codebook of two.
C6_Witness ==
    /\ op = "quantize"
    /\ ret.raised = "none"
    /\ Len(weight.v) = 2
    /\ Cardinality(DOMAIN ret.value.at) = 2
    /\ \E pos \in DOMAIN ret.value.at : ret.value.at[pos] = 1
    /\ \E pos \in DOMAIN ret.value.at : ret.value.at[pos] = 0

ExpectedRow(i, r, cols) ==
    [c \in 1..(cols + 1) |->
        IF c <= cols THEN vocab_map[VisualName(arg.codes[i][r][c])]
        ELSE vocab_map[EolName]]

RECURSIVE ExpectedRows(_, _, _)
ExpectedRows(i, n, cols) ==
    IF n = 0 THEN <<>> ELSE ExpectedRows(i, n - 1, cols) \o ExpectedRow(i, n, cols)

\* The ids of image i: floor(h / f) rows of floor(w / f) columns.
ExpectedImage(i) ==
    ExpectedRows(i, Floor(arg.image_sizes[i][1], vision_spatial_factor(config)),
                 Floor(arg.image_sizes[i][2], vision_spatial_factor(config)))

RECURSIVE ExpectedImages(_)
ExpectedImages(n) ==
    IF n = 0 THEN <<>> ELSE ExpectedImages(n - 1) \o ExpectedImage(n)

\* The canvas is large enough for the encoder to halve it down to a grid.
CanvasFitsEncoder(cfg, input) ==
    /\ Height(input.pixel_values) >= vision_spatial_factor(cfg)
    /\ Width(input.pixel_values) >= vision_spatial_factor(cfg)

\* floor(h / f) * (floor(w / f) + 1)
ExpectedCount(i) ==
    Floor(arg.image_sizes[i][1], vision_spatial_factor(config))
    * (Floor(arg.image_sizes[i][2], vision_spatial_factor(config)) + 1)

C11_DecodeRejectsIndex ==
    (op = "decode" /\ ~EntriesInCodebook(config, arg)) => ret.raised # "none"

\* decode has raised IndexError on a non-empty clip grid that holds the
\* index -1 next to a valid one.
C11_Witness ==
    /\ op = "decode"
    /\ Len(arg.shape) = 4
    /\ NonEmpty(arg.shape)
    /\ arg.entries = {-1, 0}
    /\ ret.raised = "IndexError"

\* C12 as stated: encode of a pixel tensor of batch size B with an
\* image_sizes of a number of entries other than B fails with an error.
C12_MismatchedSizesRaise ==
    (op = "encode" /\ Len(arg.image_sizes) # arg.pixel_values[1])
    => ret.raised # "none"

\* A table the mapping cannot work from: no end-of-line name, no
\* image-placeholder name, or no visual-token name.
Defective(vm) ==
    \/ EolName \notin DOMAIN vm
    \/ ImageName \notin DOMAIN vm
    \/ VisualNames(vm) = {}

\* C13 as stated: constructing the vocabulary mapping from a table that
\* lacks the end-of-line name, lacks the image-placeholder name or holds no
\* visual-token name fails at construction.
C13_DefectiveTableFailsAtConstruction ==
    (op = "__init__" /\ Defective(arg)) => ret.raised # "none"

\* C14 as stated: for a clip (5-D) input of T frames, T divisible by
\* temporal_downsample_factor, the grid encode returns for a clip of
\* declared size (h, w) keeps all T / temporal_downsample_factor frames and
\* has floor(h / f) rows and floor(w / f) columns.  Stated for the
\* configurations whose temporal_downsample_factor is a power of two.
C14_ClipGridKeepsFrames ==
    (/\ op = "encode"
     /\ Len(arg.pixel_values) = 5
     /\ SizesFitCanvas(arg)
     /\ IsPowerOfTwo(config.temporal_downsample_factor)
     /\ arg.pixel_values[2] % config.temporal_downsample_factor = 0
     /\ ret.raised = "none")
    => \A i \in 1..Len(ret.value) :
          ret.value[i].shape =
              <<arg.pixel_values[2] \div config.temporal_downsample_factor,
                Floor(arg.image_sizes[i][1], vision_spatial_factor(config)),
                Floor(arg.image_sizes[i][2], vision_spatial_factor(config))>>

\* What a call returns when it runs alone on a mapping that has cached
\* nothing yet.
Alone(call, input) ==
    CASE call = "convert_img2bpe" -> convert_img2bpe(vocab_map, NotCached, input)[1]
      [] call = "convert_bpe2img" -> convert_bpe2img(vocab_map, NotCached, input)[1]
      [] call = "encode" -> encode(config, input.pixel_values, input.image_sizes)
      [] OTHER -> decode(config, input)

\* C15: under every interleaving of concurrent convert_img2bpe,
\* convert_bpe2img, encode and decode calls on one shared model and one
\* shared vocabulary mapping, races on the first use of the lazily built
\* tables included, each call returns what it returns when run alone.
C15_ConcurrentCallsAsAlone ==
    \A t \in Threads :
        origin[t].pc = "done" => ret[t] = Alone(op[t], arg[t])

\* A conversion has returned its ids while another thread, which missed
\* the same mapping tensor before it was stored, is still inside the
\* function that builds it.
C15_Witness ==
    \E t, u \in Threads :
        /\ t # u
        /\ origin[t].pc = "done"
        /\ op[t] = "convert_img2bpe"
        /\ ret[t].raised = "none"
        /\ op[u] = "convert_img2bpe"
        /\ origin[u].stack # <<>>
        /\ origin[u].stack[1].prop = "img2bpe_mapping_tensor"
        /\ cached.img2bpe_mapping_tensor.some

\* What a read of each table of the mapping returns.
Tables(vm, c) ==
    <<img2bpe(vm, c)[1], bpe2img(vm, c)[1],
      img2bpe_mapping_tensor(vm, c)[1], bpe2img_mapping_tensor(vm, c)[1]>>

ReplaceLast(t, v) ==
    Tensor2(t.rows, t.cols, LAMBDA r, c : IF c = t.cols THEN v ELSE t.at[r][c])

Nearest(pos) ==
    {j \in 0..(Len(weight.v) - 1) :
        \A k \in 1..Len(weight.v) :
            SquaredDistance(arg.hidden_state.at[pos], weight.v[j + 1])
                <= SquaredDistance(arg.hidden_state.at[pos], weight.v[k])}

\* The smallest index among the nearest codewords is the one returned.
TieTakesSmallest(pos) ==
    Cardinality(Nearest(pos)) >= 2
        => \A j \in Nearest(pos) : ret.value.at[pos] <= j

C19_TemporalConvsAreCausal ==
    /\ Conv3dTemporalPad - Conv3dTemporalFront = 0
    /\ op = "temporal_conv" =>
        /\ ret.raised = "none"
        /\ ret.value.shape[3] = arg[3]
        /\ \A i \in DOMAIN ret.value.reads : \A f \in ret.value.reads[i] : f <= i
    /\ (op = "temporal_downsample" /\ ret.raised = "none") =>
        \A i \in DOMAIN ret.value.reads : \A f \in ret.value.reads[i] : f <= 2 * i + 1
    /\ (op = "temporal_downsample" /\ arg[3] % 2 = 0) =>
        /\ ret.raised = "none"
        /\ 2 * ret.value.shape[3] = arg[3]

\* A downsample of 4 frames has returned 2, the second computed from all
\* four input frames, the first from frames 0 and 1 and the padding.
C19_Witness ==
    /\ op = "temporal_downsample"
    /\ arg[3] = 4
    /\ ret.raised = "none"
    /\ ret.value.shape[3] = 2
    /\ ret.value.reads[0] = {0, 1}
    /\ ret.value.reads[1] = {0, 1, 2, 3}

\* C20 as stated: decode_image_tokens on the flattened convert_img2bpe
\* output of a grid of codes of height h and width w, followed by three
\* tokens, calls the decoder on the (1, h, w) tensor that holds the grid.
C20_DecoderGetsGridAnyTable ==
    (/\ op = "decode_image_tokens"
     /\ origin.some
     /\ Entries(origin.v) \subseteq DefinedCodes(vocab_map))
    => ret.decoder_input = Some(<<origin.v>>)

\* C20, amended: the same, for a table whose visual tokens have pairwise
\* distinct shared ids.
C20_DecoderGetsGrid ==
    (/\ op = "decode_image_tokens"
     /\ origin.some
     /\ VisualIdsDistinct(vocab_map)
     /\ Entries(origin.v) \subseteq DefinedCodes(vocab_map))
    => ret.decoder_input = Some(<<origin.v>>)

\* The decoder has been called on a grid of two rows that holds both
\* codes, read back from ids followed by three tokens that are no visual
\* ids.
C20_Witness ==
    /\ op = "decode_image_tokens"
    /\ origin.some
    /\ VisualIdsDistinct(vocab_map)
    /\ origin.v.rows = 2
    /\ origin.v.cols = 1
    /\ Entries(origin.v) = DefinedCodes(vocab_map)
    /\ arg.image_tokens.at[1][arg.image_tokens.cols] = 4
    /\ ret.decoder_input = Some(<<origin.v>>)
    /\ ret.raised = "none"

(***************************************************************************)
(* What the claims about the forward calls speak of.                       *)
(***************************************************************************)

\* C24 as stated: Emu3Model.forward raises a ValueError exactly when
\* input_ids and inputs_embeds are both given or both absent.
C24_ValueErrorIffBadArguments ==
    op = "model_forward" =>
        ((ret.raised = "ValueError")
            <=> (arg.input_ids.some <=> arg.inputs_embeds.some))

\* C24, amended: the call raises a ValueError whenever input_ids and
\* inputs_embeds are both given or both absent, whatever the other
\* arguments; with exactly one of them and no pixel_values it raises none.
C24_ArgumentCheck ==
    op = "model_forward" =>
        /\ (arg.input_ids.some <=> arg.inputs_embeds.some) => ret.raised = "ValueError"
        /\ ((arg.input_ids.some # arg.inputs_embeds.some) /\ ~arg.pixel_values.some)
            => ret.raised = "none"

\* The call was refused with both input_ids and inputs_embeds given, next
\* to images.
C24_Witness ==
    /\ op = "model_forward"
    /\ arg.input_ids.some
    /\ arg.inputs_embeds.some
    /\ arg.pixel_values.some
    /\ ret.raised = "ValueError"

\* The image tokens of the call's images, as get_image_tokens returns them.
ImageTokensOfCall ==
    get_image_tokens(config, vocab_map, cached,
                     [pixel_values |-> arg.pixel_values.v,
                      image_sizes |-> arg.image_sizes.v], arg.codes)[1]

\* The places of input_ids, row after row, among the first n, that hold
\* the placeholder id.
PlaceholdersUpTo(n) ==
    {k \in 1..n : Flatten2(arg.input_ids.v)[k] = image_token_id(vocab_map).v}

\* A call of Emu3Model.forward with input_ids and images whose tokens are
\* as many as the placeholders of input_ids.
MergeCase ==
    /\ op = "model_forward"
    /\ arg.input_ids.some
    /\ ~arg.inputs_embeds.some
    /\ arg.pixel_values.some
    /\ ImageTokensOfCall.raised = "none"
    /\ Cardinality(PlaceholdersUpTo(arg.input_ids.v.rows * arg.input_ids.v.cols))
        = Len(ImageTokensOfCall.value)

\* C22: in Emu3Model.forward with input_ids and pixel_values, when as many
\* places hold the placeholder id as there are image tokens, the k-th such
\* place in row-major order gets the embedding of the k-th image token of
\* get_image_tokens, and every other place keeps the embedding of its id.
C22_PlaceholdersTakeImageTokens ==
    MergeCase =>
        /\ ret.raised = "none"
        /\ \A r \in 1..arg.input_ids.v.rows : \A c \in 1..arg.input_ids.v.cols :
            ret.value.hidden_states_of.at[r][c] =
                IF arg.input_ids.v.at[r][c] = image_token_id(vocab_map).v
                THEN [row |-> ImageTokensOfCall.value[
                        Cardinality(PlaceholdersUpTo((r - 1) * arg.input_ids.v.cols + c))]]
                ELSE [row |-> arg.input_ids.v.at[r][c]]

\* Two rows of two ids, three of them placeholders, have taken the three
\* tokens of a grid of two different codes; the fourth kept its embedding.
C22_Witness ==
    /\ MergeCase
    /\ arg.input_ids.v.rows = 2
    /\ arg.input_ids.v.cols = 2
    /\ Len(ImageTokensOfCall.value) = 3
    /\ ImageTokensOfCall.value[1] # ImageTokensOfCall.value[2]
    /\ arg.input_ids.v.at[1][2] # image_token_id(vocab_map).v
    /\ ret.raised = "none"

\* What Emu3Model.forward returns for the arguments of the call.
InnerModelOnCall == model_forward(config, vocab_map, cached, arg)[1]

\* C21: when Emu3ForConditionalGeneration.forward is called with input_ids
\* that hold placeholder ids, with pixel_values and image_sizes, the hidden
\* states its logits are computed from are those of the inner model run
\* with the same pixel_values and image_sizes: the placeholder places
\* carry image-token embeddings.
C21_LogitsFromImageEmbeddings ==
    (/\ op = "generation_forward"
     /\ arg.input_ids.some
     /\ ~arg.inputs_embeds.some
     /\ arg.pixel_values.some
     /\ PlaceholdersUpTo(arg.input_ids.v.rows * arg.input_ids.v.cols) # {}
     /\ InnerModelOnCall.raised = "none")
    => /\ ret.raised = "none"
       /\ ret.value.logits_of = InnerModelOnCall.value

====
